---- MODULE Spec2Model ----
(***************************************************************************)
(* Model of the redirect pipeline of the starter kit:                      *)
(*   - the rules endpoint  src/app/api/redirect/route.ts  (GET), with its  *)
(*     module-level in-memory cache, run by several concurrent handlers;   *)
(*   - the edge interceptor  [proxy].edge.js  (src/unnamed/part_000);      *)
(* and of its component core: the component registry (part_009), the name  *)
(* canonicalisation (string-utils.ts), the tree renderer (part_003) and    *)
(* the reference resolver (part_005).                                      *)
(* Times are milliseconds, as Date.now() gives them.                       *)
(***************************************************************************)
EXTENDS Integers, Sequences, FiniteSets, TLC

VARIABLES
    clock,            \* what Date.now() returns at this moment
    arrays,           \* heap of the reachable rule arrays: arrays[r] is the content of array r
    cachedRedirects,  \* route.ts:33  reference into arrays, or Null
    cacheTimestamp,   \* route.ts:34
    pc,               \* per GET handler: "idle" or "fetching" (suspended at the await)
    now,              \* per GET handler: its local const now (route.ts:60)
    observed,         \* per GET handler: cache state its check at route.ts:63 saw
    last,             \* the GET call that finished last, with its response
    fetchCount,       \* number of getEntries calls issued so far
    lastFill,         \* the latest cache write (route.ts:95-96): [ref, rules, at, by, over]
    edge,             \* state of the edge interceptor (one request at a time)
    components,       \* ComponentMapper.components: canonical name -> implementation
    registered,       \* the last two register calls, oldest first: <<name, implementation>>
    invocation,       \* the call of the component core in hand: [op, arg, res]
    snapshot,         \* the mapping the last getAllComponents call returned
    api,              \* the request of the API client in hand (part_012)
    modal,            \* the modal instances and the body's overflow style
    lang              \* the LanguageService singleton and the page requests in hand

vars == <<clock, arrays, cachedRedirects, cacheTimestamp, pc, now, observed,
          fetchCount, lastFill, last, edge, components, registered, invocation,
          snapshot, api, modal, lang>>

-----------------------------------------------------------------------------
(* Bounds of the model *)

NumHandlers == 2

\* Number of ModalWrapper instances mounted on the page.
NumModals == 4

\* Number of page requests the server handles concurrently.
NumPages == 2

\* Largest retries setting of an API client.
MaxRetries == 2
MaxFetches == 3
MaxPeriods == 2

Handlers == 1..NumHandlers

-----------------------------------------------------------------------------
(* route.ts: values *)

Null == 0

CACHE_DURATION == 10 * 60 * 1000

\* The instants at which the model reads the clock: 0, the instants around the
\* cache duration (so that ages just below, at and just above it occur), and
\* the later multiples of it.
Instants ==
    {0} \cup {CACHE_DURATION + d : d \in {-1, 0, 1}}
        \cup {k * CACHE_DURATION : k \in 2..MaxPeriods}

\* CMS mappings of the redirect_mappings entry (IRedirectMappings.mappings[i]).
\* isNull marks a null element of the mappings array.
Mapping(src, dst, st) == [isNull |-> FALSE, source |-> src, destination |-> dst, status |-> st]
NullMapping == [isNull |-> TRUE, source |-> "", destination |-> "", status |-> ""]

MapOldNew == Mapping("/old", "/new", "Active")
MapOldExt == Mapping("/old", "https://example.com/x", "Active")
MapDraft  == Mapping("/draft", "/new", "Inactive")

\* What the awaited getEntries call can resolve to. kind "undefined": no value;
\* kind "object": { entries: [...] }, each entry with or without a mappings array.
Entry(has, ms) == [hasMappings |-> has, mappings |-> ms]
Answer(k, es) == [kind |-> k, entries |-> es]

UpstreamAnswers ==
    { Answer("undefined", <<>>),
      Answer("object", <<>>),
      Answer("object", <<Entry(FALSE, <<>>)>>),
      Answer("object", <<Entry(TRUE, <<MapOldNew>>)>>),
      Answer("object", <<Entry(TRUE, <<MapOldNew, MapDraft, MapOldExt>>)>>),
      Answer("object", <<Entry(TRUE, <<MapOldNew, NullMapping>>)>>),
      Answer("object", <<Entry(TRUE, <<>>), Entry(TRUE, <<MapOldNew>>)>>) }

\* route.ts:87-92  the rule built from one mapping
RedirectRule(mapping) ==
    [source |-> mapping.source, destination |-> mapping.destination,
     permanent |-> TRUE, status |-> 301]

\* route.ts:86  the filter callback reads mapping.status: a TypeError on null
TransformThrows(answer) ==
    /\ answer.kind = "object"
    /\ Len(answer.entries) > 0
    /\ answer.entries[1].hasMappings
    /\ \E i \in 1..Len(answer.entries[1].mappings) : answer.entries[1].mappings[i].isNull

\* Variant of Rewrites: the mappings are not filtered by their status
RewritesUnfiltered(answer) ==
    IF answer.kind = "object" /\ Len(answer.entries) > 0 /\ answer.entries[1].hasMappings
    THEN [i \in 1..Len(answer.entries[1].mappings) |->
             RedirectRule(answer.entries[1].mappings[i])]
    ELSE <<>>

\* route.ts:84-92  mappingEntries?.entries?.[0]?.mappings?.filter(..).map(..) || []
Rewrites(answer) ==
    IF answer.kind = "object" /\ Len(answer.entries) > 0 /\ answer.entries[1].hasMappings
    THEN LET active == SelectSeq(answer.entries[1].mappings,
                                 LAMBDA m : m.status = "Active")
         IN  [i \in 1..Len(active) |-> RedirectRule(active[i])]
    ELSE <<>>

\* Variant of CacheHit: the age test written with <= instead of <
CacheHitInclusive(cached, timestamp, t) ==
    cached # Null /\ t - timestamp <= CACHE_DURATION

\* route.ts:63  cachedRedirects && now - cacheTimestamp < CACHE_DURATION
\* (an empty array is truthy: only null fails the first conjunct)
CacheHit(cached, timestamp, t) ==
    cached # Null /\ t - timestamp < CACHE_DURATION

\* The NextResponse objects GET builds. xCached is the X-Cached header ("none"
\* when absent); xStale and xError tell whether X-Stale / X-Error are present.
Response(st, b, xc, xs, xe, cc) ==
    [status |-> st, body |-> b, xCached |-> xc, xStale |-> xs, xError |-> xe,
     cacheControl |-> cc]

NoResponse == Response(0, <<>>, "none", FALSE, FALSE, "")

\* route.ts:64-75
HitResponse(rules) == Response(200, rules, "true", FALSE, FALSE, "s-maxage=3600")

\* route.ts:99-110
FreshResponse(rules) == Response(200, rules, "false", FALSE, FALSE, "s-maxage=3600")

\* route.ts:118-127
StaleResponse(rules) == Response(200, rules, "true", TRUE, TRUE, "s-maxage=60")

\* Variant of EmptyResponse: the failure surfaces as a 500
EmptyResponseAsError == Response(500, <<>>, "none", FALSE, TRUE, "s-maxage=60")

\* route.ts:131-138
EmptyResponse == Response(200, <<>>, "none", FALSE, TRUE, "s-maxage=60")

\* route.ts:117  cachedRedirects && cachedRedirects.length > 0
HasStaleRules(cached, heap) ==
    cached # Null /\ Len(heap[cached]) > 0

\* Variant of CatchResponse: the stale answer goes out without the X-Stale header
CatchResponseUnmarked(cached, heap) ==
    IF HasStaleRules(cached, heap)
    THEN Response(200, heap[cached], "true", FALSE, TRUE, "s-maxage=60")
    ELSE EmptyResponse

\* route.ts:111-139  the catch block
CatchResponse(cached, heap) ==
    IF HasStaleRules(cached, heap) THEN StaleResponse(heap[cached]) ELSE EmptyResponse

\* The spec's name of the cache state at time t (spec 4.2)
CacheState(cached, timestamp, t) ==
    IF cached = Null THEN "Empty"
    ELSE IF t - timestamp < CACHE_DURATION THEN "Fresh" ELSE "Stale"

-----------------------------------------------------------------------------
(* route.ts: GET, one action per stretch of code between suspensions *)

\* The record of a finished GET call: who ran it, the cache state its check at
\* route.ts:63 saw, its local now, how its fetch ended, and what it returned.
Finished(h, obs, t, outcome, answer, response) ==
    [by |-> h, observed |-> obs, now |-> t, outcome |-> outcome, answer |-> answer,
     resp |-> response]

\* no getEntries answer: the call was a hit, or the fetch rejected
NoAnswer == Answer("none", <<>>)

NoCall == Finished(0, "none", 0, "none", NoAnswer, NoResponse)

\* Date.now() moves on
Tick ==
    /\ \E t \in Instants : t > clock /\ clock' = t
    /\ UNCHANGED <<arrays, cachedRedirects, cacheTimestamp, pc, now, observed,
                   fetchCount, lastFill, last, edge, components, registered, invocation,
                   snapshot, api, modal, lang>>

\* route.ts:58-81  from entry to the return of the hit, or to the await
GetEnter(h) ==
    /\ pc[h] = "idle"
    /\ IF CacheHit(cachedRedirects, cacheTimestamp, clock)
       THEN /\ last' = Finished(h, CacheState(cachedRedirects, cacheTimestamp, clock),
                                clock, "hit", NoAnswer, HitResponse(arrays[cachedRedirects]))
            /\ UNCHANGED <<pc, now, observed, fetchCount>>
       ELSE /\ fetchCount < MaxFetches
            /\ fetchCount' = fetchCount + 1
            /\ now' = [now EXCEPT ![h] = clock]
            /\ observed' = [observed EXCEPT
                              ![h] = CacheState(cachedRedirects, cacheTimestamp, clock)]
            /\ pc' = [pc EXCEPT ![h] = "fetching"]
            /\ UNCHANGED last
    /\ UNCHANGED <<clock, arrays, cachedRedirects, cacheTimestamp, lastFill, edge, components, registered, invocation,
                   snapshot, api, modal, lang>>

\* the handler's frame is gone once it has returned
GetLeave(h) ==
    /\ pc' = [pc EXCEPT ![h] = "idle"]
    /\ now' = [now EXCEPT ![h] = 0]
    /\ observed' = [observed EXCEPT ![h] = "none"]

\* Variant of GetCatch: a cold-start failure is stored as an empty rule set
GetCatchCachesFailure(h, answer) ==
    /\ last' = Finished(h, observed[h], now[h], "threw", answer,
                        CatchResponse(cachedRedirects, arrays))
    /\ GetLeave(h)
    /\ IF cachedRedirects = Null
       THEN /\ arrays' = 1 :> <<>>
            /\ cachedRedirects' = 1
            /\ cacheTimestamp' = now[h]
       ELSE UNCHANGED <<arrays, cachedRedirects, cacheTimestamp>>
    /\ UNCHANGED <<clock, fetchCount, lastFill, edge, components, registered, invocation,
                   snapshot, api, modal, lang>>

\* route.ts:111-139  the catch block, run by handler h
GetCatch(h, answer) ==
    /\ last' = Finished(h, observed[h], now[h], "threw", answer,
                        CatchResponse(cachedRedirects, arrays))
    /\ GetLeave(h)
    /\ UNCHANGED <<clock, arrays, cachedRedirects, cacheTimestamp, fetchCount,
                   lastFill, edge, components, registered, invocation,
                   snapshot, api, modal, lang>>

\* The reference of an array allocated now: one that no reachable array has
\* (the cache holds the only reachable one).
NewRef == IF cachedRedirects = 1 THEN 2 ELSE 1

\* Variant of GetFill: the timestamp is the time of the write
GetFillAtWriteTime(h, answer, rewrites) ==
    /\ arrays' = NewRef :> rewrites
    /\ cachedRedirects' = NewRef
    /\ cacheTimestamp' = clock
    /\ lastFill' = [ref |-> NewRef, rules |-> rewrites, at |-> clock, by |-> h,
                    over |-> cacheTimestamp]
    /\ last' = Finished(h, observed[h], now[h], "resolved", answer, FreshResponse(rewrites))
    /\ GetLeave(h)
    /\ UNCHANGED <<clock, fetchCount, edge, components, registered, invocation,
                   snapshot, api, modal, lang>>

\* Variant of GetFill: the timestamp is left as it was
GetFillKeepsTimestamp(h, answer, rewrites) ==
    /\ arrays' = NewRef :> rewrites
    /\ cachedRedirects' = NewRef
    /\ UNCHANGED cacheTimestamp
    /\ lastFill' = [ref |-> NewRef, rules |-> rewrites, at |-> now[h], by |-> h,
                    over |-> cacheTimestamp]
    /\ last' = Finished(h, observed[h], now[h], "resolved", answer, FreshResponse(rewrites))
    /\ GetLeave(h)
    /\ UNCHANGED <<clock, fetchCount, edge, components, registered, invocation,
                   snapshot, api, modal, lang>>

\* Variant of GetFill: the cached array is refilled in place, not replaced
GetFillInPlace(h, answer, rewrites) ==
    /\ IF cachedRedirects = Null
       THEN arrays' = NewRef :> rewrites /\ cachedRedirects' = NewRef
       ELSE arrays' = [arrays EXCEPT ![cachedRedirects] = rewrites]
            /\ UNCHANGED cachedRedirects
    /\ cacheTimestamp' = now[h]
    /\ lastFill' = [ref |-> cachedRedirects', rules |-> rewrites, at |-> now[h], by |-> h,
                    over |-> cacheTimestamp]
    /\ last' = Finished(h, observed[h], now[h], "resolved", answer, FreshResponse(rewrites))
    /\ GetLeave(h)
    /\ UNCHANGED <<clock, fetchCount, edge, components, registered, invocation,
                   snapshot, api, modal, lang>>

\* Variant of GetFill: a result is dropped when another handler has written the
\* cache since this one entered (first writer wins)
GetFillUnlessWritten(h, answer, rewrites) ==
    /\ IF CacheState(cachedRedirects, cacheTimestamp, now[h]) = observed[h]
       THEN /\ arrays' = NewRef :> rewrites
            /\ cachedRedirects' = NewRef
            /\ cacheTimestamp' = now[h]
            /\ lastFill' = [ref |-> NewRef, rules |-> rewrites, at |-> now[h], by |-> h,
                    over |-> cacheTimestamp]
       ELSE UNCHANGED <<arrays, cachedRedirects, cacheTimestamp, lastFill>>
    /\ last' = Finished(h, observed[h], now[h], "resolved", answer, FreshResponse(rewrites))
    /\ GetLeave(h)
    /\ UNCHANGED <<clock, fetchCount, edge, components, registered, invocation,
                   snapshot, api, modal, lang>>

\* route.ts:94-110  the cache write and the fresh response. The array built by
\* filter/map is a new object; the array it replaces in the cache is dropped.
GetFill(h, answer, rewrites) ==
    /\ arrays' = NewRef :> rewrites
    /\ cachedRedirects' = NewRef
    /\ cacheTimestamp' = now[h]
    /\ lastFill' = [ref |-> NewRef, rules |-> rewrites, at |-> now[h], by |-> h,
                    over |-> cacheTimestamp]
    /\ last' = Finished(h, observed[h], now[h], "resolved", answer, FreshResponse(rewrites))
    /\ GetLeave(h)
    /\ UNCHANGED <<clock, fetchCount, edge, components, registered, invocation,
                   snapshot, api, modal, lang>>

\* route.ts:79-110  getEntries resolves: transform, write the cache, answer
GetFetchResolves(h) ==
    /\ pc[h] = "fetching"
    /\ \E answer \in UpstreamAnswers :
          IF TransformThrows(answer) THEN GetCatch(h, answer)
          ELSE GetFill(h, answer, Rewrites(answer))

\* route.ts:79, 111-139  getEntries rejects
GetFetchRejects(h) ==
    /\ pc[h] = "fetching"
    /\ GetCatch(h, NoAnswer)

NoFill == [ref |-> Null, rules |-> <<>>, at |-> 0, by |-> 0, over |-> 0]

InitCache ==
    /\ clock = 0
    /\ arrays = <<>>
    /\ cachedRedirects = Null
    /\ cacheTimestamp = 0
    /\ pc = [h \in Handlers |-> "idle"]
    /\ now = [h \in Handlers |-> 0]
    /\ observed = [h \in Handlers |-> "none"]
    /\ fetchCount = 0
    /\ lastFill = NoFill
    /\ last = NoCall

Init ==
    /\ InitCache
    /\ edge = [pc |-> "idle", url |-> <<>>, env |-> "unset",
               reply |-> [kind |-> "rejected", ok |-> FALSE, json |-> "none", items |-> <<>>],
               fetches |-> 0,
               out |-> [kind |-> "none", url |-> <<>>, status |-> 0, location |-> <<>>]]
    /\ components = <<>>
    /\ registered = <<>>
    /\ invocation = [op |-> "none", arg |-> <<>>, res |-> <<>>]
    /\ snapshot = [taken |-> FALSE, alias |-> FALSE, map |-> <<>>]
    /\ api = [pc |-> "idle", retries |-> 0, timer |-> "none", ownSignal |-> FALSE,
              aborted |-> FALSE, firedAt |-> 0, attempt |-> 0, fetches |-> 0, delays |-> 0,
              response |-> [status |-> 0, body |-> "none"], log |-> <<>>,
              result |-> [name |-> "none", message |-> "", status |-> 0]]
    /\ modal = [overflow |-> "", before |-> "",
                isOpen |-> [m \in 1..NumModals |-> FALSE],
                originalOverflow |-> [m \in 1..NumModals |-> ""]]
    /\ lang = [currentLanguage |-> "en",
               pc |-> [h \in 1..NumPages |-> "idle"],
               locale |-> [h \in 1..NumPages |-> "undefined"],
               used |-> [h \in 1..NumPages |-> [page |-> "", header |-> "", footer |-> ""]]]

NextCache ==
    \/ Tick
    \/ \E h \in Handlers : GetEnter(h)
    \/ \E h \in Handlers : GetFetchResolves(h)
    \/ \E h \in Handlers : GetFetchRejects(h)

\* The rules endpoint under concurrent GET calls
SpecCache == Init /\ [][NextCache]_vars

-----------------------------------------------------------------------------
(* [proxy].edge.js: strings are sequences of characters *)

MaxRules == 2

StartsWith(str, prefix) ==
    Len(str) >= Len(prefix) /\ SubSeq(str, 1, Len(prefix)) = prefix

Includes(str, ch) == \E i \in 1..Len(str) : str[i] = ch

\* index of the first ch in str at or after position from; Len(str) + 1 if none
IndexFrom(str, ch, from) ==
    IF \E i \in from..Len(str) : str[i] = ch
    THEN CHOOSE i \in from..Len(str) : str[i] = ch /\ \A j \in from..(i - 1) : str[j] # ch
    ELSE Len(str) + 1

\* new URL(request.url): the parts of a serialised http(s) URL
\* ("scheme://host/path?query"), as the handler reads them
ParseURL(url) ==
    LET colon == IndexFrom(url, ":", 1)
        slash == IndexFrom(url, "/", colon + 3)
        query == IndexFrom(url, "?", slash)
    IN  [protocol |-> SubSeq(url, 1, colon),
         host     |-> SubSeq(url, colon + 3, slash - 1),
         pathname |-> SubSeq(url, slash, query - 1),
         search   |-> SubSeq(url, query, Len(url))]

\* URL.toString()
Href(u) == u.protocol \o <<"/", "/">> \o u.host \o u.pathname \o u.search

RECURSIVE PathEncode(_)
\* the URL path parser's percent-encoding of the characters that would
\* otherwise end the path
PathEncode(str) ==
    IF str = <<>> THEN <<>>
    ELSE (CASE Head(str) = "?" -> <<"%", "3", "F">>
            [] Head(str) = "#" -> <<"%", "2", "3">>
            [] OTHER -> <<Head(str)>>) \o PathEncode(Tail(str))

\* part_000:89-91  newUrl.pathname = destination; newUrl.toString()
\* (the setter keeps the query string; a path always starts with "/")
WithPathname(u, destination) ==
    [u EXCEPT !.pathname =
        PathEncode(IF StartsWith(destination, <<"/">>) THEN destination
                   ELSE <<"/">> \o destination)]

EdgeOrigin == <<"h", "t", "t", "p", "s", ":", "/", "/", "a", ".", "i", "o">>

PathOld    == <<"/", "o", "l", "d">>
PathOther  == <<"/", "x">>
PathApiX   == <<"/", "a", "p", "i", "/", "x">>
PathApi    == <<"/", "a", "p", "i">>
PathNext   == <<"/", "_", "n", "e", "x", "t", "/", "y">>
PathStatic == <<"/", "s", "t", "a", "t", "i", "c", "/", "z">>
PathFile   == <<"/", "a", ".", "b">>
PathNewQ   == <<"/", "n", "?", "a">>
PathNew    == <<"/", "n", "e", "w">>
UrlExt     == <<"h", "t", "t", "p", "s", ":", "/", "/", "e", ".", "i", "o", "/", "x">>
QueryQ     == <<"?", "q">>

PathApiRedirect == <<"/", "a", "p", "i", "/", "r", "e", "d", "i", "r", "e", "c", "t">>

RequestPaths ==
    {PathOld, PathOther, PathApiX, PathApi, PathNext, PathStatic, PathFile, PathApiRedirect}

\* request.url of the incoming requests
RequestUrls == {EdgeOrigin \o path \o search : path \in RequestPaths, search \in {<<>>, QueryQ}}

\* process.env.ENABLE_REDIRECTS ("unset": the variable is not defined)
EnvValues == {"true", "false", "unset"}

\* Elements of the JSON array the rules endpoint answers with. kind "null" is a
\* null element; destIsString FALSE is a rule without a (string) destination;
\* status 0 is a rule without status.
Rule(src, isStr, dst, st) ==
    [kind |-> "rule", source |-> src, destIsString |-> isStr, destination |-> dst,
     status |-> st]
NullRule == [kind |-> "null", source |-> <<>>, destIsString |-> FALSE,
             destination |-> <<>>, status |-> 0]

RuleItems ==
    {NullRule} \cup
    {Rule(src, d[1], d[2], st) :
        src \in {PathOld, PathApiX},
        d \in {<<TRUE, PathNew>>, <<TRUE, PathNewQ>>, <<TRUE, UrlExt>>, <<FALSE, <<>>>>},
        st \in {0, 302, 99}}

RuleArrays == UNION {[1..n -> RuleItems] : n \in 0..MaxRules}

\* What the fetch of /api/redirect can give: a rejection; a response that is
\* not ok; an ok response whose body is not JSON ("invalid"), is JSON but no
\* array ("object", "null"), or is an array.
Reply(k, isOk, json, items) == [kind |-> k, ok |-> isOk, json |-> json, items |-> items]

Replies ==
    {Reply("rejected", FALSE, "none", <<>>), Reply("response", FALSE, "invalid", <<>>),
     Reply("response", TRUE, "invalid", <<>>), Reply("response", TRUE, "object", <<>>),
     Reply("response", TRUE, "null", <<>>)}
    \cup {Reply("response", TRUE, "array", items) : items \in RuleArrays}
    \cup {Reply("response", FALSE, "array", <<Rule(PathOld, TRUE, PathNew, 0)>>)}

\* What the handler returns: fetch(request) of the request it was given, or a
\* Response of its own.
PassThrough(requestUrl) ==
    [kind |-> "passthrough", url |-> requestUrl, status |-> 0, location |-> <<>>]
OwnResponse(st, loc) ==
    [kind |-> "response", url |-> <<>>, status |-> st, location |-> loc]
NoOutcome == [kind |-> "none", url |-> <<>>, status |-> 0, location |-> <<>>]

\* Variant of RedirectsEnabled: redirects are on unless switched off
RedirectsEnabledByDefault(env) == env # "false"

\* part_000:49
RedirectsEnabled(env) == env = "true"

\* Variant of SkippedPath: API routes are not skipped
SkippedPathNoApi(pathname) ==
    \/ StartsWith(pathname, <<"/", "_", "n", "e", "x", "t", "/">>)
    \/ StartsWith(pathname, <<"/", "s", "t", "a", "t", "i", "c", "/">>)
    \/ Includes(pathname, ".")

\* part_000:57-62
SkippedPath(pathname) ==
    \/ StartsWith(pathname, <<"/", "a", "p", "i", "/">>)
    \/ StartsWith(pathname, <<"/", "_", "n", "e", "x", "t", "/">>)
    \/ StartsWith(pathname, <<"/", "s", "t", "a", "t", "i", "c", "/">>)
    \/ Includes(pathname, ".")

\* part_000:67
ApiUrl(u) == u.protocol \o <<"/", "/">> \o u.host
             \o <<"/", "a", "p", "i", "/", "r", "e", "d", "i", "r", "e", "c", "t">>

\* Variant of FindFrom: the last matching rule is taken instead of the first
RECURSIVE FindFromLast(_, _, _)
FindFromLast(items, pathname, i) ==
    IF i > Len(items) THEN 0
    ELSE IF items[i].kind = "null" THEN -1
    ELSE LET later == FindFromLast(items, pathname, i + 1)
         IN  IF later > 0 THEN later
             ELSE IF items[i].source = pathname THEN i
             ELSE later

\* part_000:76  redirects.find(rule => rule.source === pathname): the index of
\* the first match, 0 if none, -1 if the callback throws on a null element
\* before any match
RECURSIVE FindFrom(_, _, _)
FindFrom(items, pathname, i) ==
    IF i > Len(items) THEN 0
    ELSE IF items[i].kind = "null" THEN -1
    ELSE IF items[i].source = pathname THEN i
    ELSE FindFrom(items, pathname, i + 1)

\* Variant of EdgeCatch: the failure is answered with a 500
EdgeCatchAnswersError(requestUrl) == OwnResponse(500, <<>>)

\* part_000:105-114  the catch block
EdgeCatch(requestUrl) == PassThrough(requestUrl)

\* part_000:78-101  the redirect built from the matching rule
BuildRedirect(requestUrl, rule) ==
    IF ~rule.destIsString THEN EdgeCatch(requestUrl)           \* startsWith of undefined
    ELSE LET isExternalRedirect ==
                 \/ StartsWith(rule.destination, <<"h", "t", "t", "p", ":", "/", "/">>)
                 \/ StartsWith(rule.destination, <<"h", "t", "t", "p", "s", ":", "/", "/">>)
             redirectUrl ==
                 IF isExternalRedirect THEN rule.destination
                 ELSE Href(WithPathname(ParseURL(requestUrl), rule.destination))
             status == IF rule.status = 0 THEN 301 ELSE rule.status
         IN  IF status \notin 200..599 THEN EdgeCatch(requestUrl)   \* RangeError
             ELSE OwnResponse(status, redirectUrl)

\* part_000:69-104  from the resumption after the rule fetch to the return
AfterRuleFetch(requestUrl, reply) ==
    IF reply.kind = "rejected" THEN EdgeCatch(requestUrl)
    ELSE IF ~reply.ok THEN PassThrough(requestUrl)                 \* redirects = []
    ELSE IF reply.json # "array" THEN EdgeCatch(requestUrl)        \* json() rejects, or no find
    ELSE LET found == FindFrom(reply.items, ParseURL(requestUrl).pathname, 1)
         IN  IF found = -1 THEN EdgeCatch(requestUrl)
             ELSE IF found = 0 THEN PassThrough(requestUrl)
             ELSE BuildRedirect(requestUrl, reply.items[found])

\* The interceptor's state: the request in hand, the environment it read, the
\* reply the rules endpoint has for it, the number of rule fetches issued for
\* it, and what the handler returned.
EdgeState(p, requestUrl, env, reply, fetches, out) ==
    [pc |-> p, url |-> requestUrl, env |-> env, reply |-> reply, fetches |-> fetches,
     out |-> out]

EdgeIdle ==
    EdgeState("idle", <<>>, "unset", Reply("rejected", FALSE, "none", <<>>), 0, NoOutcome)

\* Variant of EdgeEnter: the skip-list is not consulted
EdgeEnterNoSkipList(requestUrl, env, reply) ==
    /\ edge.pc = "idle"
    /\ IF ~RedirectsEnabled(env)
       THEN edge' = EdgeState("done", requestUrl, env, reply, 0, PassThrough(requestUrl))
       ELSE edge' = EdgeState("awaitRules", requestUrl, env, reply, 1, NoOutcome)
    /\ UNCHANGED <<clock, arrays, cachedRedirects, cacheTimestamp, pc, now, observed,
                   fetchCount, lastFill, last,
                   components, registered, invocation,
                   snapshot, api, modal, lang>>

\* part_000:42-68  from entry to a return of fetch(request), or to the await of
\* the rule fetch. reply is what the rules endpoint holds for this request.
EdgeEnter(requestUrl, env, reply) ==
    /\ edge.pc = "idle"
    /\ IF ~RedirectsEnabled(env) \/ SkippedPath(ParseURL(requestUrl).pathname)
       THEN edge' = EdgeState("done", requestUrl, env, reply, 0, PassThrough(requestUrl))
       ELSE edge' = EdgeState("awaitRules", requestUrl, env, reply, 1, NoOutcome)
    /\ UNCHANGED <<clock, arrays, cachedRedirects, cacheTimestamp, pc, now, observed,
                   fetchCount, lastFill, last,
                   components, registered, invocation,
                   snapshot, api, modal, lang>>

\* part_000:68-114  the rule fetch settles and the handler returns
EdgeResume ==
    /\ edge.pc = "awaitRules"
    /\ edge' = [edge EXCEPT !.pc = "done", !.out = AfterRuleFetch(edge.url, edge.reply)]
    /\ UNCHANGED <<clock, arrays, cachedRedirects, cacheTimestamp, pc, now, observed,
                   fetchCount, lastFill, last,
                   components, registered, invocation,
                   snapshot, api, modal, lang>>

\* the handler has returned; the next request comes in
EdgeReturn ==
    /\ edge.pc = "done"
    /\ edge' = EdgeIdle
    /\ UNCHANGED <<clock, arrays, cachedRedirects, cacheTimestamp, pc, now, observed,
                   fetchCount, lastFill, last,
                   components, registered, invocation,
                   snapshot, api, modal, lang>>

NextEdge ==
    \/ /\ edge.pc = "idle"
       /\ \E requestUrl \in RequestUrls, env \in EnvValues, reply \in Replies :
             EdgeEnter(requestUrl, env, reply)
    \/ EdgeResume
    \/ EdgeReturn

\* The edge interceptor, one request after the other
SpecEdge == Init /\ [][NextEdge]_vars

-----------------------------------------------------------------------------
(* Steps of a GET call, as seen on a pair of states *)

\* handler h runs route.ts:58-81 in this step
EnterStep(h) ==
    /\ pc[h] = "idle"
    /\ \/ pc'[h] = "fetching"
       \/ last' # last /\ last'.by = h

\* handler h resumes from the await and finishes in this step
ResumeStep(h) == pc[h] = "fetching" /\ pc'[h] = "idle"

\* handler h's fetch failed (getEntries rejected, or its answer made the
\* transformation throw) and its catch block runs in this step
FailStep(h) == ResumeStep(h) /\ last'.outcome = "threw"

\* handler h's fetch succeeded and it writes the cache in this step
FillStep(h) == ResumeStep(h) /\ last'.outcome = "resolved"

CacheUnchanged == UNCHANGED <<arrays, cachedRedirects, cacheTimestamp>>

-----------------------------------------------------------------------------
(* Claims about the rules endpoint *)

\* C1 as stated: whenever a handler that saw a Stale cache has its fetch fail,
\* its response body is the cached rule set, the response carries X-Stale, and
\* the cache is left as it was - whatever the cached rule set is.
C1_StaleFailureAlwaysMarkedStale ==
    [][\A h \in Handlers :
         (FailStep(h) /\ observed[h] = "Stale")
         => /\ last'.resp.body = arrays[cachedRedirects]
            /\ last'.resp.xStale
            /\ CacheUnchanged]_vars

\* C1 as amended: whenever a handler that saw a Stale cache has its fetch fail,
\* its response body is the rule set cached at that moment, the response carries
\* X-Error, the cache is left as it was, and the response carries X-Stale
\* exactly when that rule set is not empty.
C1_StaleFailureServesCache ==
    [][\A h \in Handlers :
         (FailStep(h) /\ observed[h] = "Stale")
         => /\ last'.resp.body = arrays[cachedRedirects]
            /\ last'.resp.xError
            /\ last'.resp.xStale <=> (Len(arrays[cachedRedirects]) > 0)
            /\ CacheUnchanged]_vars

\* C1 witness: a call at age >= TTL whose fetch failed answered with the
\* non-empty cached rules, marked stale, the cache still holding them.
C1_Witness ==
    /\ last.outcome = "threw"
    /\ last.observed = "Stale"
    /\ last.now - cacheTimestamp >= 10 * 60 * 1000
    /\ last.resp.xStale
    /\ Len(last.resp.body) > 0
    /\ last.resp.body = arrays[cachedRedirects]

\* C2: a GET call that finds rules cached with now - filledAt < 10 minutes
\* returns them without a fetch and without writing the cache; a call that
\* finds nothing cached, or now - filledAt >= 10 minutes, issues a fetch.
C2_FreshHitElseFetch ==
    [][\A h \in Handlers :
         EnterStep(h)
         => IF cachedRedirects # Null /\ clock - cacheTimestamp < 10 * 60 * 1000
            THEN /\ last'.by = h
                 /\ last'.outcome = "hit"
                 /\ last'.resp.body = arrays[cachedRedirects]
                 /\ fetchCount' = fetchCount
                 /\ pc'[h] = "idle"
                 /\ CacheUnchanged
            ELSE /\ pc'[h] = "fetching"
                 /\ fetchCount' = fetchCount + 1
                 /\ last' = last]_vars

\* C2 witness: a hit one millisecond before the TTL was served from the cache,
\* and a call exactly at the TTL is now awaiting its fetch.
C2_Witness ==
    /\ last.outcome = "hit"
    /\ last.now - cacheTimestamp = 10 * 60 * 1000 - 1
    /\ \E h \in Handlers :
          /\ pc[h] = "fetching"
          /\ observed[h] = "Stale"
          /\ now[h] - cacheTimestamp = 10 * 60 * 1000

\* C3: when a fetch issued from the Empty or Stale state succeeds, the cache
\* holds a new array with the rules built from the answer, filledAt is the now
\* of that call, the response is those rules, and every GET entered afterwards
\* less than 10 minutes after the fill's now is a hit returning the filled set.
C3_RefillReplacesAndFreshens ==
    [][/\ \A h \in Handlers :
            FillStep(h)
            => /\ observed[h] \in {"Empty", "Stale"}
               /\ cachedRedirects' # cachedRedirects
               /\ arrays'[cachedRedirects'] = Rewrites(last'.answer)
               /\ cacheTimestamp' = now[h]
               /\ last'.resp.body = arrays'[cachedRedirects']
               /\ last'.resp.xCached = "false"
       /\ \A g \in Handlers :
            (EnterStep(g) /\ lastFill.ref # Null
               /\ clock >= lastFill.at /\ clock - lastFill.at < 10 * 60 * 1000)
            => /\ last'.outcome = "hit"
               /\ last'.resp.body = lastFill.rules
               /\ fetchCount' = fetchCount]_vars

\* C3 witness: a Stale cache was refilled with a non-empty set and a later call,
\* less than the TTL after the refill, was served that set from the cache.
C3_Witness ==
    /\ lastFill.ref = 2
    /\ lastFill.at >= 10 * 60 * 1000
    /\ Len(lastFill.rules) > 0
    /\ last.outcome = "hit"
    /\ last.now > lastFill.at
    /\ last.resp.body = lastFill.rules

\* C4: when the fetch of a call fails while nothing is cached, the response is
\* 200 with an empty array and X-Error (no X-Stale), the cache stays Empty, and
\* every GET entered while the cache is Empty issues a fetch.
C4_ColdFailureEmptyAndUncached ==
    [][/\ \A h \in Handlers :
            (FailStep(h) /\ cachedRedirects = Null)
            => /\ last'.resp.status = 200
               /\ last'.resp.body = <<>>
               /\ last'.resp.xError
               /\ ~last'.resp.xStale
               /\ cachedRedirects' = Null
               /\ CacheUnchanged
       /\ \A g \in Handlers :
            (EnterStep(g) /\ lastFill = NoFill)
            => pc'[g] = "fetching" /\ fetchCount' = fetchCount + 1]_vars

\* C4 witness: a cold-start call failed and answered with the empty array, the
\* cache is still Empty, and the next call is fetching again.
C4_Witness ==
    /\ last.outcome = "threw"
    /\ last.observed = "Empty"
    /\ last.resp.body = <<>>
    /\ last.resp.xError
    /\ cachedRedirects = Null
    /\ \E h \in Handlers : pc[h] = "fetching" /\ observed[h] = "Empty" /\ now[h] > last.now

IsRuleArray(body) ==
    /\ DOMAIN body = 1..Len(body)
    /\ \A i \in DOMAIN body :
          DOMAIN body[i] = {"source", "destination", "permanent", "status"}

\* C5: every response of GET has status 200 and an array of rules as body,
\* whatever the cache state and however the fetch ended.
C5_Always200WithArray ==
    last.by # 0 => last.resp.status = 200 /\ IsRuleArray(last.resp.body)

\* C5 witness: the least favourable call, a failed fetch with nothing cached,
\* has answered.
C5_Witness ==
    last.outcome = "threw" /\ last.observed = "Empty" /\ last.resp.status = 200

\* C6: the cached rules and timestamp are always those of one single fill (or
\* both still initial); a cache write installs a new array; and no array is
\* ever changed after it was created.
C6_AtomicReplacement ==
    /\ [](IF lastFill = NoFill
          THEN cachedRedirects = Null /\ cacheTimestamp = 0
          ELSE /\ cachedRedirects = lastFill.ref
               /\ arrays[cachedRedirects] = lastFill.rules
               /\ cacheTimestamp = lastFill.at)
    /\ [][/\ \A r \in DOMAIN arrays \cap DOMAIN arrays' : arrays'[r] = arrays[r]
          /\ (\E h \in Handlers : FillStep(h))
             => cachedRedirects' \notin DOMAIN arrays \cup {Null}
          /\ \A h \in Handlers :
               (EnterStep(h) /\ last' # last) => last'.resp.body = lastFill.rules]_vars

\* C6 witness: two handlers were in flight together, the second write has
\* replaced the first one's array with a different rule set, and a third fetch
\* is in flight while the cache holds that pair.
C6_Witness ==
    /\ lastFill.ref = 2
    /\ lastFill.by = 2
    /\ Len(lastFill.rules) = 2
    /\ cacheTimestamp = lastFill.at
    /\ pc[1] = "fetching"

\* C7: a call that misses issues a fetch of its own even while other fetches
\* are in flight, and every successful fetch overwrites the cache with its own
\* result, so that the cache holds what the last writer wrote.
C7_EachFetchesLastWriterWins ==
    [][/\ \A h \in Handlers :
            (EnterStep(h) /\ pc'[h] = "fetching") => fetchCount' = fetchCount + 1
       /\ \A h \in Handlers :
            FillStep(h)
            => /\ arrays'[cachedRedirects'] = last'.resp.body
               /\ arrays'[cachedRedirects'] = Rewrites(last'.answer)
               /\ cacheTimestamp' = now[h]
               /\ lastFill'.by = h
       /\ (\A h \in Handlers : ~FillStep(h)) => (lastFill' = lastFill /\ CacheUnchanged)]_vars

\* C7 witness: both handlers saw the Empty cache before either wrote it, both
\* fetched, both wrote, and the cache holds the second writer's rules, which
\* differ from the first writer's.
C7_Witness ==
    /\ fetchCount = 2
    /\ cachedRedirects = 2
    /\ last.outcome = "resolved"
    /\ last.observed = "Empty"
    /\ last.by = lastFill.by
    /\ arrays[cachedRedirects] = last.resp.body
    /\ Len(last.resp.body) = 1

-----------------------------------------------------------------------------
(* Claims about the edge interceptor *)

\* the path of a request URL, from the way the request URLs are put together
ReqPath(requestUrl) ==
    CHOOSE path \in RequestPaths :
        \E search \in {<<>>, QueryQ} : requestUrl = EdgeOrigin \o path \o search

IsMatch(item, path) == item.kind = "rule" /\ item.source = path

\* some rule of the answered array has the path as its source
SomeRuleMatches(reply, path) ==
    /\ reply.kind = "response" /\ reply.ok /\ reply.json = "array"
    /\ \E i \in 1..Len(reply.items) : IsMatch(reply.items[i], path)

\* a step of rule fetching, matching or redirect construction fails: the fetch
\* rejects, the answer is not OK, its body is no JSON array, a null element
\* comes before any match, or the first matching rule has no string
\* destination or a status no Response accepts
SomeStepFails(reply, path) ==
    \/ reply.kind = "rejected"
    \/ ~reply.ok
    \/ reply.json # "array"
    \/ \E i \in 1..Len(reply.items) :
          /\ \A j \in 1..(i - 1) : ~IsMatch(reply.items[j], path)
          /\ \/ reply.items[i].kind = "null"
             \/ /\ IsMatch(reply.items[i], path)
                /\ \/ ~reply.items[i].destIsString
                   \/ reply.items[i].status \notin {0} \cup (200..599)

\* C8: a handled request for which redirects are disabled, or no rule matches,
\* or a step fails, is answered by passing the original request through; and a
\* response of the handler's own is always the redirect of the first matching
\* rule, with that rule's status (301 if it has none).
C8_FailOpen ==
    edge.pc = "done"
    => /\ edge.out.kind \in {"passthrough", "response"}
       /\ ( \/ edge.env # "true"
            \/ ~SomeRuleMatches(edge.reply, ReqPath(edge.url))
            \/ SomeStepFails(edge.reply, ReqPath(edge.url)) )
          => edge.out = [kind |-> "passthrough", url |-> edge.url, status |-> 0,
                         location |-> <<>>]
       /\ edge.out.kind = "response"
          => /\ SomeRuleMatches(edge.reply, ReqPath(edge.url))
             /\ \E i \in 1..Len(edge.reply.items) :
                   /\ IsMatch(edge.reply.items[i], ReqPath(edge.url))
                   /\ \A j \in 1..(i - 1) : ~IsMatch(edge.reply.items[j], ReqPath(edge.url))
                   /\ edge.out.status = IF edge.reply.items[i].status = 0 THEN 301
                                         ELSE edge.reply.items[i].status

\* C8 witness: with redirects enabled, a request whose first matching rule has
\* no destination (the construction throws) was passed through.
C8_Witness ==
    /\ edge.pc = "done"
    /\ edge.env = "true"
    /\ edge.fetches = 1
    /\ ReqPath(edge.url) = PathOld
    /\ edge.reply.ok /\ edge.reply.json = "array" /\ Len(edge.reply.items) = 2
    /\ IsMatch(edge.reply.items[1], PathOld) /\ ~edge.reply.items[1].destIsString
    /\ IsMatch(edge.reply.items[2], PathOld) /\ edge.reply.items[2].destIsString
    /\ edge.out.kind = "passthrough"
    /\ edge.out.url = edge.url

\* the paths of the skip-list
SkipListed(path) ==
    \/ StartsWith(path, <<"/", "a", "p", "i", "/">>)
    \/ StartsWith(path, <<"/", "_", "n", "e", "x", "t", "/">>)
    \/ StartsWith(path, <<"/", "s", "t", "a", "t", "i", "c", "/">>)
    \/ \E i \in 1..Len(path) : path[i] = "."

\* C9: a request in hand whose path starts with /api/, /_next/ or /static/, or
\* contains a dot, has been passed through with no rule fetch issued, whatever
\* the environment and whatever rules the endpoint holds.
C9_SkipListPassesThrough ==
    (edge.pc # "idle" /\ SkipListed(ReqPath(edge.url)))
    => /\ edge.pc = "done"
       /\ edge.fetches = 0
       /\ edge.out.kind = "passthrough"
       /\ edge.out.url = edge.url

\* C9 witness: with redirects enabled, /api/x was passed through although the
\* endpoint holds a well-formed rule whose source is /api/x.
C9_Witness ==
    /\ edge.pc = "done"
    /\ edge.env = "true"
    /\ ReqPath(edge.url) = PathApiX
    /\ edge.reply.ok /\ edge.reply.json = "array" /\ Len(edge.reply.items) = 1
    /\ IsMatch(edge.reply.items[1], PathApiX)
    /\ edge.reply.items[1].destIsString /\ edge.reply.items[1].status = 0
    /\ edge.fetches = 0
    /\ edge.out.kind = "passthrough"

\* C10: a request in hand while ENABLE_REDIRECTS is anything but 'true' has
\* been passed through with no rule fetch issued - the outcome of a request
\* that no rule matches.
C10_DisabledPassesThrough ==
    (edge.pc # "idle" /\ edge.env # "true")
    => /\ edge.pc = "done"
       /\ edge.fetches = 0
       /\ edge.out = AfterRuleFetch(edge.url, [kind |-> "response", ok |-> TRUE,
                                               json |-> "array", items |-> <<>>])
       /\ edge.out.kind = "passthrough"
       /\ edge.out.url = edge.url

\* C10 witness: with the variable unset, /old was passed through although the
\* endpoint holds a well-formed rule for /old.
C10_Witness ==
    /\ edge.pc = "done"
    /\ edge.env = "unset"
    /\ ReqPath(edge.url) = PathOld
    /\ edge.reply.ok /\ edge.reply.json = "array" /\ Len(edge.reply.items) = 1
    /\ IsMatch(edge.reply.items[1], PathOld)
    /\ edge.reply.items[1].destIsString /\ edge.reply.items[1].status = 302
    /\ edge.fetches = 0
    /\ edge.out.kind = "passthrough"

\* a destination the handler treats as external
IsExternal(destination) ==
    \/ StartsWith(destination, <<"h", "t", "t", "p", ":", "/", "/">>)
    \/ StartsWith(destination, <<"h", "t", "t", "p", "s", ":", "/", "/">>)

\* the request was handled with redirects enabled, its path is not skipped,
\* and rule i of a well-formed answer is the first whose source is the path
FirstMatchIs(i) ==
    /\ edge.pc = "done"
    /\ edge.env = "true"
    /\ ~SkipListed(ReqPath(edge.url))
    /\ SomeRuleMatches(edge.reply, ReqPath(edge.url))
    /\ ~SomeStepFails(edge.reply, ReqPath(edge.url))
    /\ i \in 1..Len(edge.reply.items)
    /\ IsMatch(edge.reply.items[i], ReqPath(edge.url))
    /\ \A j \in 1..(i - 1) : ~IsMatch(edge.reply.items[j], ReqPath(edge.url))

\* C11: a non-skipped request whose path equals the source of at least one
\* rule is answered with a redirect built from the first such rule in array
\* order: its status is that rule's status (301 if unset), and a destination
\* starting with http:// or https:// is the Location, verbatim.
C11_FirstMatchRedirects ==
    \A i \in 1..MaxRules + 1 :
        FirstMatchIs(i)
        => /\ edge.out.kind = "response"
           /\ edge.out.status = IF edge.reply.items[i].status = 0 THEN 301
                                 ELSE edge.reply.items[i].status
           /\ IsExternal(edge.reply.items[i].destination)
              => edge.out.location = edge.reply.items[i].destination

\* C11 witness: two rules have the source /old; the first has an external
\* destination and no status, the second a relative one and status 302; the
\* answer is a 301 to the external destination.
C11_Witness ==
    /\ FirstMatchIs(1)
    /\ Len(edge.reply.items) = 2
    /\ edge.reply.items[1].destination = UrlExt /\ edge.reply.items[1].status = 0
    /\ IsMatch(edge.reply.items[2], PathOld)
    /\ edge.reply.items[2].destination = PathNew /\ edge.reply.items[2].status = 302
    /\ edge.out.kind = "response"
    /\ edge.out.status = 301
    /\ edge.out.location = UrlExt

\* C12: for a request matching a rule whose destination is a site-relative
\* path, Location is the request's origin followed by the destination, for
\* every request URL, one with a query string included.
C12_RelativeIsOriginPlusDestination ==
    \A i \in 1..MaxRules + 1 :
        (FirstMatchIs(i) /\ ~IsExternal(edge.reply.items[i].destination))
        => /\ edge.out.kind = "response"
           /\ edge.out.location = EdgeOrigin \o edge.reply.items[i].destination

-----------------------------------------------------------------------------
(* string-utils.ts: toPascalCase. A string is the sequence of its characters. *)

MaxNameLen == 3

LowerLetters == <<"a", "b", "c", "d", "e", "f", "g", "h", "i", "j", "k", "l", "m",
                  "n", "o", "p", "q", "r", "s", "t", "u", "v", "w", "x", "y", "z">>
UpperLetters == <<"A", "B", "C", "D", "E", "F", "G", "H", "I", "J", "K", "L", "M",
                  "N", "O", "P", "Q", "R", "S", "T", "U", "V", "W", "X", "Y", "Z">>

\* [a-z] and [A-Z]
IsLower(c) == \E i \in 1..Len(LowerLetters) : LowerLetters[i] = c
IsUpper(c) == \E i \in 1..Len(UpperLetters) : UpperLetters[i] = c

\* [_\-\s]
IsSeparator(c) == c \in {"_", "-", " ", "\t", "\n"}

\* c.toUpperCase() of one character
ToUpperCase(c) ==
    IF IsLower(c) THEN UpperLetters[CHOOSE i \in 1..Len(LowerLetters) : LowerLetters[i] = c]
    ELSE c

\* string-utils.ts:11  .replace(/([a-z])([A-Z])/g, '$1 $2')
RECURSIVE SplitCamel(_)
SplitCamel(str) ==
    IF Len(str) < 2 THEN str
    ELSE IF IsLower(str[1]) /\ IsUpper(str[2])
         THEN <<str[1], " ", str[2]>> \o SplitCamel(Tail(Tail(str)))
         ELSE <<str[1]>> \o SplitCamel(Tail(str))

\* the rest of str after its leading run of separators
RECURSIVE SkipSeparators(_)
SkipSeparators(str) ==
    IF str # <<>> /\ IsSeparator(Head(str)) THEN SkipSeparators(Tail(str)) ELSE str

\* string-utils.ts:12  .replace(/[_\-\s]+(.)?/g, (_, c) => (c ? c.toUpperCase() : ''))
RECURSIVE ReplaceSeparators(_)
ReplaceSeparators(str) ==
    IF str = <<>> THEN <<>>
    ELSE IF IsSeparator(Head(str))
         THEN LET rest == SkipSeparators(str)
              IN  IF rest = <<>> THEN <<>>
                  ELSE <<ToUpperCase(Head(rest))>> \o ReplaceSeparators(Tail(rest))
         ELSE <<Head(str)>> \o ReplaceSeparators(Tail(str))

\* string-utils.ts:13  .replace(/^[a-z]/, c => c.toUpperCase())
UpperFirst(str) ==
    IF str # <<>> /\ IsLower(Head(str)) THEN <<ToUpperCase(Head(str))>> \o Tail(str)
    ELSE str

\* Variant of toPascalCase: the first character is left as it is
toPascalCaseKeepsFirst(str) == ReplaceSeparators(SplitCamel(str))

\* string-utils.ts:9-14
toPascalCase(str) == UpperFirst(ReplaceSeparators(SplitCamel(str)))

HeroSnake  == <<"h", "e", "r", "o", "_", "b", "a", "n", "n", "e", "r">>
HeroKebab  == <<"h", "e", "r", "o", "-", "b", "a", "n", "n", "e", "r">>
HeroPascal == <<"H", "e", "r", "o", "B", "a", "n", "n", "e", "r">>
HeroCamel  == <<"h", "e", "r", "o", "B", "a", "n", "n", "e", "r">>

\* the characters the tested names are made of: lower and upper case letters,
\* the three kinds of separator, a digit
NameChars == {"a", "b", "B", "_", "-", " ", "1"}

\* the strings canonicalisation is applied to
NameInputs ==
    UNION {[1..n -> NameChars] : n \in 0..MaxNameLen}
    \cup {HeroSnake, HeroKebab, HeroPascal, HeroCamel}

\* a call of the component core: the operation, its arguments, its outcome
Invocation(op, arg, res) == [op |-> op, arg |-> arg, res |-> res]

NoInvocation == Invocation("none", <<>>, <<>>)

\* a call of toPascalCase
CallToPascalCase(str) ==
    /\ invocation.op = "none"
    /\ invocation' = Invocation("toPascalCase", str, toPascalCase(str))
    /\ UNCHANGED <<clock, arrays, cachedRedirects, cacheTimestamp, pc, now, observed,
                   fetchCount, lastFill, last, edge, components, registered,
                   snapshot, api, modal, lang>>

\* the call in hand has returned to its caller
InvocationReturn ==
    /\ invocation.op # "none"
    /\ invocation.op \in {"ComponentRenderer", "ReferencePlaceholder"}
       => invocation.res.raised \/ invocation.res.rendered.state # "pending"
    /\ invocation' = NoInvocation
    /\ UNCHANGED <<clock, arrays, cachedRedirects, cacheTimestamp, pc, now, observed,
                   fetchCount, lastFill, last, edge, components, registered,
                   snapshot, api, modal, lang>>

NextCanon ==
    \/ /\ invocation.op = "none"
       /\ \E str \in NameInputs : CallToPascalCase(str)
    \/ InvocationReturn

\* Canonicalisation applied to one string after the other
SpecCanon == Init /\ [][NextCanon]_vars

\* C16: canonicalising a canonical form gives it back, for every input string;
\* and hero_banner, hero-banner and HeroBanner all have the canonical form
\* HeroBanner.
C16_CanonIdempotent ==
    invocation.op = "toPascalCase"
    => /\ toPascalCase(invocation.res) = invocation.res
       /\ invocation.arg \in {HeroSnake, HeroKebab, HeroPascal} => invocation.res = HeroPascal

\* C16 witness: hero_banner was canonicalised to HeroBanner.
C16_Witness ==
    /\ invocation.op = "toPascalCase"
    /\ invocation.arg = HeroSnake
    /\ invocation.res = HeroPascal

-----------------------------------------------------------------------------
(* part_009: ComponentMapper, the registry of implementations *)

MaxBulk == 2

\* part_009:16  the fallback implementation
NotFound == "NotFound"

\* The implementations the generated manifest registers (React components);
\* Thrower is one whose invocation throws.
Implementations == {"A", "Thrower"}

Undefined == "undefined"

TextBlock   == <<"t", "e", "x", "t", "-", "b", "l", "o", "c", "k">>
Constructor == <<"c", "o", "n", "s", "t", "r", "u", "c", "t", "o", "r">>
ToStringKey == <<"t", "o", "S", "t", "r", "i", "n", "g">>
Missing     == <<"x">>

\* the names registrations are made under, and the names looked up
RegisterNames == {HeroSnake, HeroPascal, TextBlock}
LookupNames == RegisterNames \cup {HeroKebab, HeroCamel, <<>>, Constructor, ToStringKey, Missing}

\* part_009:15  components = {} is a plain object: a key that is not its own
\* is looked up in Object.prototype
ObjectPrototypeKeys == {Constructor, ToStringKey}

\* this.components[key]
Lookup(comps, key) ==
    IF key \in DOMAIN comps THEN comps[key]
    ELSE IF key \in ObjectPrototypeKeys THEN "inherited"
    ELSE Undefined

\* Variant of register: a key already taken keeps its implementation
registerFirstWins(comps, name, component) ==
    IF toPascalCase(name) \in DOMAIN comps THEN comps
    ELSE [k \in DOMAIN comps \cup {toPascalCase(name)} |->
             IF k = toPascalCase(name) THEN component ELSE comps[k]]

\* part_009:28-30  this.components[toPascalCase(name)] = component
register(comps, name, component) ==
    [k \in DOMAIN comps \cup {toPascalCase(name)} |->
        IF k = toPascalCase(name) THEN component ELSE comps[k]]

\* part_009:33-37  the entries are registered one after the other
RECURSIVE registerBulk(_, _)
registerBulk(comps, entries) ==
    IF entries = <<>> THEN comps
    ELSE registerBulk(register(comps, Head(entries)[1], Head(entries)[2]), Tail(entries))

\* Variant of getComponent: a missing component is not replaced by the fallback
getComponentNoFallback(comps, name) == Lookup(comps, toPascalCase(name))

\* part_009:40-43  component ?? this.notFoundComponent
getComponent(comps, name) ==
    IF Lookup(comps, toPascalCase(name)) = Undefined THEN NotFound
    ELSE Lookup(comps, toPascalCase(name))

\* Variant of hasComponent: the name is looked up as given
hasComponentRawName(comps, name) == Lookup(comps, name) # Undefined

\* part_009:46-48  !!this.components[toPascalCase(name)]
hasComponent(comps, name) == Lookup(comps, toPascalCase(name)) # Undefined

\* Object.entries of the map given to registerBulk: pairs <<name, component>>
\* with distinct names, in the order of the object's keys
BulkEntries ==
    {entries \in UNION {[1..n -> RegisterNames \X Implementations] : n \in 0..MaxBulk} :
        \A i, j \in 1..Len(entries) : i # j => entries[i][1] # entries[j][1]}

\* the last two of the register calls made
LastTwo(calls) ==
    IF Len(calls) <= 2 THEN calls ELSE SubSeq(calls, Len(calls) - 1, Len(calls))

\* how a call ended: normally with a value, or by raising
Returned(value) == [raised |-> FALSE, value |-> value]
Raised == [raised |-> TRUE, value |-> Undefined]

\* A mapping handed out by getAllComponents: whether it is the registry's own
\* object (alias) or an object of its own, and its content.
Snapshot(alias, map) == [taken |-> TRUE, alias |-> alias, map |-> map]
NoSnapshot == [taken |-> FALSE, alias |-> FALSE, map |-> <<>>]

\* a write to the registry's object shows in every reference to that object
SameObject(snap, comps) == IF snap.alias THEN [snap EXCEPT !.map = comps] ELSE snap

\* Variant of getAllComponents: the registry's own object is handed out
getAllComponentsNoCopy(comps) == Snapshot(TRUE, comps)

\* part_009:51-53  return { ...this.components }: a new object with the same
\* entries
getAllComponents(comps) == Snapshot(FALSE, comps)

\* a call of register
CallRegister(name, component) ==
    /\ invocation.op = "none"
    /\ components' = register(components, name, component)
    /\ registered' = LastTwo(Append(registered, <<name, component>>))
    /\ invocation' = Invocation("register", <<name, component>>, Returned(Undefined))
    /\ snapshot' = SameObject(snapshot, components')
    /\ UNCHANGED <<clock, arrays, cachedRedirects, cacheTimestamp, pc, now, observed,
                   fetchCount, lastFill, last, edge, api, modal, lang>>

\* a call of registerBulk
CallRegisterBulk(entries) ==
    /\ invocation.op = "none"
    /\ components' = registerBulk(components, entries)
    /\ registered' = LastTwo(registered \o entries)
    /\ invocation' = Invocation("registerBulk", entries, Returned(Undefined))
    /\ snapshot' = SameObject(snapshot, components')
    /\ UNCHANGED <<clock, arrays, cachedRedirects, cacheTimestamp, pc, now, observed,
                   fetchCount, lastFill, last, edge, api, modal, lang>>

\* a call of getComponent
CallGetComponent(name) ==
    /\ invocation.op = "none"
    /\ invocation' = Invocation("getComponent", name, Returned(getComponent(components, name)))
    /\ UNCHANGED <<clock, arrays, cachedRedirects, cacheTimestamp, pc, now, observed,
                   fetchCount, lastFill, last, edge, components, registered,
                   snapshot, api, modal, lang>>

\* a call of hasComponent
CallHasComponent(name) ==
    /\ invocation.op = "none"
    /\ invocation' = Invocation("hasComponent", name, Returned(hasComponent(components, name)))
    /\ UNCHANGED <<clock, arrays, cachedRedirects, cacheTimestamp, pc, now, observed,
                   fetchCount, lastFill, last, edge, components, registered,
                   snapshot, api, modal, lang>>

NextRegistry ==
    \/ /\ invocation.op = "none"
       /\ \/ \E name \in RegisterNames, component \in Implementations :
                CallRegister(name, component)
          \/ \E entries \in BulkEntries : CallRegisterBulk(entries)
          \/ \E name \in LookupNames : CallGetComponent(name)
          \/ \E name \in LookupNames : CallHasComponent(name)
    \/ InvocationReturn

\* The registry under any sequence of its operations
SpecRegistry == Init /\ [][NextRegistry]_vars

\* C13: the registry's keys are canonical forms, each with one implementation;
\* register and registerBulk never raise; and after a register call, looking
\* up any name whose canonical form equals that of the name just registered
\* returns the implementation just registered, whatever was there before.
C13_LastWriteWins ==
    /\ \A k \in DOMAIN components : toPascalCase(k) = k /\ components[k] \in Implementations
    /\ invocation.op \in {"register", "registerBulk"} => ~invocation.res.raised
    /\ ( /\ invocation.op = "getComponent"
         /\ registered # <<>>
         /\ toPascalCase(invocation.arg) = toPascalCase(registered[Len(registered)][1]) )
       => invocation.res = Returned(registered[Len(registered)][2])

\* C13 witness: hero_banner was registered with A, then HeroBanner with
\* Thrower, and getComponent("hero_banner") returned Thrower.
C13_Witness ==
    /\ registered = << <<HeroSnake, "A">>, <<HeroPascal, "Thrower">> >>
    /\ invocation = Invocation("getComponent", HeroSnake, Returned("Thrower"))

\* C14: a call of getComponent, in any registry state and for any name, does
\* not raise, returns the implementation registered under the name's
\* canonical key if there is one and the NotFound fallback otherwise, and
\* leaves the registry as it was.
C14_GetComponentTotal ==
    [][ invocation'.op = "getComponent"
        => /\ components' = components
           /\ ~invocation'.res.raised
           /\ invocation'.res.value \in Implementations \cup {NotFound}
           /\ invocation'.res.value =
                 IF toPascalCase(invocation'.arg) \in DOMAIN components
                 THEN components[toPascalCase(invocation'.arg)]
                 ELSE NotFound ]_vars

\* C14 witness: with HeroBanner registered, getComponent("constructor") and
\* nothing else has returned the fallback.
C14_Witness ==
    /\ DOMAIN components = {HeroPascal}
    /\ invocation = Invocation("getComponent", Constructor, Returned(NotFound))

\* C15: hasComponent(name) is false exactly when getComponent(name), in the
\* same registry state, returns the fallback.
C15_HasAgreesWithGet ==
    invocation.op = "hasComponent"
    => /\ ~invocation.res.raised
       /\ invocation.res.value = FALSE <=> getComponent(components, invocation.arg) = NotFound

\* C15 witness: text-block alone is registered; hasComponent("toString") was
\* false.
C15_Witness ==
    /\ DOMAIN components = {toPascalCase(TextBlock)}
    /\ invocation = Invocation("hasComponent", ToStringKey, Returned(FALSE))

-----------------------------------------------------------------------------
(* part_003: ComponentRenderer; part_005: ReferencePlaceholder; and React's *)
(* rendering of the elements they return                                    *)

MaxBlocks == 2

\* The props bag of a block (the value under its type-name key): it may carry
\* a componentName field of its own.
Bag(componentName) == [componentName |-> componentName, title |-> "t"]
\* an absent string (a string is a sequence of characters)
UndefinedName == <<"undefined">>

PlainBag == Bag(UndefinedName)
NamedBag == Bag(<<"O", "w", "n">>)

\* An element of the components array: null, or an object with its own keys
\* in order and the value under the first of them.
Block(keys, bag) == [kind |-> "object", keys |-> keys, bag |-> bag]
NullBlock == [kind |-> "null", keys |-> <<>>, bag |-> PlainBag]

BlockShapes ==
    {NullBlock, Block(<<>>, PlainBag), Block(<<HeroSnake, TextBlock>>, PlainBag)}
    \cup {Block(<<name>>, bag) : name \in {HeroSnake, Missing}, bag \in {PlainBag, NamedBag}}

BlockArrays == UNION {[1..n -> BlockShapes] : n \in 0..MaxBlocks}

ExtendedPropsValues == {Undefined, "locale"}

\* A React element: its type (an implementation, NotFound, a fragment, or
\* null for no element), its key and its props.
Props(componentName, componentUid, extendedProps, fields) ==
    [componentName |-> componentName, componentUid |-> componentUid,
     extendedProps |-> extendedProps, fields |-> fields]
NoFields == [kind |-> "none"]
NoProps == Props(UndefinedName, Undefined, Undefined, NoFields)
Element(type, key, props) == [type |-> type, key |-> key, props |-> props]
NoKey == -1
NullElement == Element("null", NoKey, NoProps)
Fragment == Element("fragment", NoKey, NoProps)

\* what React has made of the returned elements: nothing yet
Pending == [state |-> "pending", nodes |-> <<>>]

\* part_003:61  Object.keys(component)?.[0]
FirstKey(block) == IF block.keys = <<>> THEN UndefinedName ELSE block.keys[1]

\* part_003:63-80  the try block and its catch, for one non-null block.
\* With no key, toPascalCase(undefined) throws inside getComponent and the
\* catch returns null. The spread of the bag comes last.
BlockElement(comps, block, index, extendedProps) ==
    LET componentName == FirstKey(block)
    IN  IF componentName = UndefinedName THEN NullElement
        ELSE Element(getComponent(comps, componentName), index,
                     Props(IF block.bag.componentName # UndefinedName
                           THEN block.bag.componentName
                           ELSE toPascalCase(componentName),
                           Undefined, extendedProps, block.bag))

\* part_003:58-82  Object.keys of a null element throws outside the try, and
\* the exception leaves map and ComponentRenderer.
ComponentRenderer(comps, blocks, extendedProps) ==
    IF \E i \in 1..Len(blocks) : blocks[i].kind = "null"
    THEN [raised |-> TRUE, value |-> <<>>, rendered |-> Pending]
    ELSE [raised |-> FALSE,
          value |-> [i \in 1..Len(blocks) |->
                        BlockElement(comps, blocks[i], i - 1, extendedProps)],
          rendered |-> Pending]

\* An element of the references array: null, or an entry with its
\* _content_type_uid (possibly absent) and its uid.
Reference(contentTypeUid) ==
    [kind |-> "object", contentTypeUid |-> contentTypeUid, uid |-> "blt1"]
NullReference == [kind |-> "null", contentTypeUid |-> UndefinedName, uid |-> Undefined]

ReferenceShapes == {NullReference} \cup {Reference(t) : t \in {HeroSnake, Missing, UndefinedName}}

ReferenceArrays == UNION {[1..n -> ReferenceShapes] : n \in 0..MaxBlocks}

\* the componentName prop of ReferencePlaceholder: absent, empty, or a name
OverrideValues == {UndefinedName, <<>>, HeroPascal, TextBlock}

\* x || ''
OrEmpty(x) == IF x = UndefinedName THEN <<>> ELSE x

\* part_005:39  componentName || toPascalCase(componentItem?._content_type_uid || '')
ResolvedName(componentItem, componentName) ==
    IF componentName # UndefinedName /\ componentName # <<>> THEN componentName
    ELSE toPascalCase(OrEmpty(componentItem.contentTypeUid))

\* Variant of ReferenceElement: the componentName override is ignored
ReferenceElementIgnoresOverride(comps, componentItem, index, componentName, extendedProps) ==
    IF componentItem.kind = "null" THEN Fragment
    ELSE Element(getComponent(comps, toPascalCase(OrEmpty(componentItem.contentTypeUid))),
                 index,
                 Props(toPascalCase(OrEmpty(componentItem.contentTypeUid)),
                       componentItem.uid, extendedProps, componentItem))

\* part_005:35-54  the node for one entry
ReferenceElement(comps, componentItem, index, componentName, extendedProps) ==
    IF componentItem.kind = "null" THEN Fragment
    ELSE LET Component == getComponent(comps, ResolvedName(componentItem, componentName))
         IN  IF Component = Undefined                                       \* !Component
             THEN Element(NotFound, index,
                          Props(OrEmpty(componentItem.contentTypeUid), Undefined,
                                Undefined, NoFields))
             ELSE Element(Component, index,
                          Props(toPascalCase(OrEmpty(componentItem.contentTypeUid)),
                                componentItem.uid, extendedProps, componentItem))

\* part_005:29-56
ReferencePlaceholder(comps, references, componentName, extendedProps) ==
    [raised |-> FALSE,
     value |-> [i \in 1..Len(references) |->
                   ReferenceElement(comps, references[i], i - 1, componentName,
                                    extendedProps)],
     rendered |-> Pending]

\* What React makes of one element when it renders it: nothing for null or an
\* empty fragment, otherwise what the element's type returns for its props.
EmptyNode == [kind |-> "empty", by |-> Undefined, props |-> NoProps]
Invoke(element) ==
    IF element.type \in {"null", "fragment"} THEN EmptyNode
    ELSE IF element.type = NotFound
         THEN [kind |-> "placeholder", by |-> NotFound, props |-> element.props]
         ELSE [kind |-> "node", by |-> element.type, props |-> element.props]

\* React renders the returned elements after the renderer has returned: an
\* implementation that throws is not inside the renderer's try block, and
\* with no error boundary around the single elements the render of the whole
\* list fails.
RenderElements(elements) ==
    IF \E i \in 1..Len(elements) : elements[i].type = "Thrower"
    THEN [state |-> "failed", nodes |-> <<>>]
    ELSE [state |-> "done", nodes |-> [i \in 1..Len(elements) |-> Invoke(elements[i])]]

\* a call of ComponentRenderer
CallComponentRenderer(blocks, extendedProps) ==
    /\ invocation.op = "none"
    /\ invocation' = Invocation("ComponentRenderer",
                                [components |-> blocks, extendedProps |-> extendedProps],
                                ComponentRenderer(components, blocks, extendedProps))
    /\ UNCHANGED <<clock, arrays, cachedRedirects, cacheTimestamp, pc, now, observed,
                   fetchCount, lastFill, last, edge, components, registered,
                   snapshot, api, modal, lang>>

\* a call of ReferencePlaceholder
CallReferencePlaceholder(references, componentName, extendedProps) ==
    /\ invocation.op = "none"
    /\ invocation' = Invocation("ReferencePlaceholder",
                                [references |-> references, componentName |-> componentName,
                                 extendedProps |-> extendedProps],
                                ReferencePlaceholder(components, references, componentName,
                                                     extendedProps))
    /\ UNCHANGED <<clock, arrays, cachedRedirects, cacheTimestamp, pc, now, observed,
                   fetchCount, lastFill, last, edge, components, registered,
                   snapshot, api, modal, lang>>

\* React renders what the renderer returned
ReactRender ==
    /\ invocation.op \in {"ComponentRenderer", "ReferencePlaceholder"}
    /\ ~invocation.res.raised
    /\ invocation.res.rendered.state = "pending"
    /\ invocation' = [invocation EXCEPT !.res.rendered = RenderElements(invocation.res.value)]
    /\ UNCHANGED <<clock, arrays, cachedRedirects, cacheTimestamp, pc, now, observed,
                   fetchCount, lastFill, last, edge, components, registered,
                   snapshot, api, modal, lang>>

NextRender ==
    \/ /\ invocation.op = "none"
       /\ \/ \E name \in RegisterNames, component \in Implementations :
                CallRegister(name, component)
          \/ \E entries \in BulkEntries : CallRegisterBulk(entries)
          \/ \E blocks \in BlockArrays, extendedProps \in ExtendedPropsValues :
                CallComponentRenderer(blocks, extendedProps)
          \/ \E references \in ReferenceArrays, componentName \in OverrideValues,
                extendedProps \in ExtendedPropsValues :
                CallReferencePlaceholder(references, componentName, extendedProps)
    \/ ReactRender
    \/ InvocationReturn

\* The renderers over any registry
SpecRender == Init /\ [][NextRender]_vars

\* the blocks and the references of the renderer call in hand
BlocksInHand == invocation.arg.components
ReferencesInHand == invocation.arg.references

\* a content block of the expected shape: an object with one type-name key
WellFormed(block) == block.kind = "object" /\ Len(block.keys) = 1

\* the implementation the registry resolves a block's type name to
Resolved(block) ==
    IF toPascalCase(block.keys[1]) \in DOMAIN components
    THEN components[toPascalCase(block.keys[1])]
    ELSE NotFound

\* what React shows at a position whose implementation has run
RenderedBy(node, impl) ==
    /\ node.by = impl
    /\ node.kind = IF impl = NotFound THEN "placeholder" ELSE "node"

\* C17: when ComponentRenderer is given N well-formed blocks and the
\* implementation of the block at some index throws when it is invoked, the
\* rendered output has N positions, the position of each throwing block is
\* empty, and every other position is rendered by its block's resolved
\* implementation, in input order.
C17_ThrowingBlockIsolated ==
    ( /\ invocation.op = "ComponentRenderer"
      /\ invocation.res.rendered.state # "pending"
      /\ \A i \in 1..Len(BlocksInHand) : WellFormed(BlocksInHand[i])
      /\ \E k \in 1..Len(BlocksInHand) : Resolved(BlocksInHand[k]) = "Thrower" )
    => /\ invocation.res.rendered.state = "done"
       /\ Len(invocation.res.rendered.nodes) = Len(BlocksInHand)
       /\ \A i \in 1..Len(BlocksInHand) :
             IF Resolved(BlocksInHand[i]) = "Thrower"
             THEN invocation.res.rendered.nodes[i].kind = "empty"
             ELSE RenderedBy(invocation.res.rendered.nodes[i], Resolved(BlocksInHand[i]))

\* C18: for every input sequence, whatever the shape of its elements (no key,
\* several keys, an unregistered type name, null), ComponentRenderer returns
\* one output position per element without raising, and the position of each
\* well-formed element holds the element of its resolved implementation.
C18_ResolutionNeverFails ==
    invocation.op = "ComponentRenderer"
    => /\ ~invocation.res.raised
       /\ Len(invocation.res.value) = Len(BlocksInHand)
       /\ \A i \in 1..Len(BlocksInHand) :
             WellFormed(BlocksInHand[i])
             => /\ invocation.res.value[i].type = Resolved(BlocksInHand[i])
                /\ invocation.res.value[i].key = i - 1

\* the name a reference is resolved under: the override if one is given,
\* otherwise its content-type uid
DiscriminatorOf(reference) ==
    IF invocation.arg.componentName \notin {UndefinedName, <<>>}
    THEN invocation.arg.componentName
    ELSE IF reference.contentTypeUid = UndefinedName THEN <<>>
    ELSE reference.contentTypeUid

\* C19: ReferencePlaceholder returns one node per input element, in input
\* order: an empty fragment at each null entry and, at each other entry, an
\* element of the implementation registered under the canonical form of the
\* entry's content-type uid (of the componentName override when one is given),
\* the fallback if there is none.
C19_OneNodePerReference ==
    invocation.op = "ReferencePlaceholder"
    => /\ ~invocation.res.raised
       /\ Len(invocation.res.value) = Len(ReferencesInHand)
       /\ \A i \in 1..Len(ReferencesInHand) :
             IF ReferencesInHand[i].kind = "null"
             THEN invocation.res.value[i].type = "fragment"
             ELSE /\ invocation.res.value[i].key = i - 1
                  /\ invocation.res.value[i].props.fields = ReferencesInHand[i]
                  /\ invocation.res.value[i].type =
                        IF toPascalCase(DiscriminatorOf(ReferencesInHand[i]))
                              \in DOMAIN components
                        THEN components[toPascalCase(DiscriminatorOf(ReferencesInHand[i]))]
                        ELSE NotFound

\* C19 witness: of two references, a null one and a hero_banner one,
\* under the override text-block, with A registered for hero_banner and
\* Thrower for text-block: a fragment, then an element of Thrower.
C19_Witness ==
    /\ invocation.op = "ReferencePlaceholder"
    /\ invocation.arg.componentName = TextBlock
    /\ ReferencesInHand = <<NullReference, Reference(HeroSnake)>>
    /\ HeroPascal \in DOMAIN components /\ components[HeroPascal] = "A"
    /\ toPascalCase(TextBlock) \in DOMAIN components
    /\ components[toPascalCase(TextBlock)] = "Thrower"
    /\ invocation.res.value[1] = Fragment
    /\ invocation.res.value[2].type = "Thrower"
    /\ invocation.res.value[2].key = 1

\* C20: for a reference whose discriminator has no registered implementation,
\* ReferencePlaceholder returns its explicit not-found placeholder - NotFound
\* given the raw content-type uid and nothing else - and not the registry's
\* fallback given the reference's own fields.
C20_ExplicitNotFound ==
    invocation.op = "ReferencePlaceholder"
    => \A i \in 1..Len(ReferencesInHand) :
          ( /\ ReferencesInHand[i].kind = "object"
            /\ ~hasComponent(components, DiscriminatorOf(ReferencesInHand[i])) )
          => invocation.res.value[i] =
                Element(NotFound, i - 1,
                        Props(OrEmpty(ReferencesInHand[i].contentTypeUid), Undefined,
                              Undefined, NoFields))

-----------------------------------------------------------------------------
(* part_009: getAllComponents and what its caller does with the result *)

\* a call of getAllComponents
CallGetAllComponents ==
    /\ invocation.op = "none"
    /\ snapshot' = getAllComponents(components)
    /\ invocation' = Invocation("getAllComponents", <<>>, Returned(Undefined))
    /\ UNCHANGED <<clock, arrays, cachedRedirects, cacheTimestamp, pc, now, observed,
                   fetchCount, lastFill, last, edge, components, registered,
                   api, modal, lang>>

\* the keys the caller writes in the returned mapping, and what it writes:
\* an implementation, or nothing (delete)
SnapshotKeys == {HeroPascal, Missing}
Deleted == "deleted"

\* the mapping after  map[key] = value  or  delete map[key]
Written(map, key, value) ==
    IF value = Deleted THEN [k \in DOMAIN map \ {key} |-> map[k]]
    ELSE [k \in DOMAIN map \cup {key} |-> IF k = key THEN value ELSE map[k]]

\* The caller adds, replaces or deletes a key of the mapping it was given. If
\* that mapping is the registry's own object, the registry changes with it.
MutateSnapshot(key, value) ==
    /\ invocation.op = "none"
    /\ snapshot.taken
    /\ Written(snapshot.map, key, value) # snapshot.map
    /\ snapshot' = [snapshot EXCEPT !.map = Written(snapshot.map, key, value)]
    /\ IF snapshot.alias THEN components' = Written(components, key, value)
       ELSE UNCHANGED components
    /\ UNCHANGED <<clock, arrays, cachedRedirects, cacheTimestamp, pc, now, observed,
                   fetchCount, lastFill, last, edge, registered, invocation,
                   api, modal, lang>>

NextSnapshot ==
    \/ /\ invocation.op = "none"
       /\ \/ \E name \in RegisterNames, component \in Implementations :
                CallRegister(name, component)
          \/ CallGetAllComponents
          \/ \E key \in SnapshotKeys, value \in Implementations \cup {Deleted} :
                MutateSnapshot(key, value)
          \/ \E name \in {HeroSnake, Missing} : CallGetComponent(name)
          \/ \E name \in {HeroSnake, Missing} : CallHasComponent(name)
    \/ InvocationReturn

\* The registry, its snapshots and their holders
SpecSnapshot == Init /\ [][NextSnapshot]_vars

\* the holder of the snapshot changes it in this step
MutateStep ==
    /\ snapshot.taken /\ snapshot'.taken
    /\ snapshot'.map # snapshot.map
    /\ invocation' = invocation

\* C21: a change made to the mapping getAllComponents returned (a key added,
\* replaced or deleted) changes no answer of getComponent or hasComponent, and
\* a register call changes no mapping returned earlier.
C21_SnapshotIndependent ==
    [][ /\ MutateStep
           => \A name \in LookupNames :
                 /\ getComponent(components', name) = getComponent(components, name)
                 /\ hasComponent(components', name) = hasComponent(components, name)
        /\ invocation'.op \in {"register", "registerBulk"} => snapshot'.map = snapshot.map
      ]_vars

\* C21 witness: the holder of a snapshot has deleted HeroBanner from it and
\* added x to it, text-block was registered after it was taken, and
\* getComponent("hero_banner") still returned A.
C21_Witness ==
    /\ snapshot.taken
    /\ DOMAIN snapshot.map = {Missing}
    /\ DOMAIN components = {HeroPascal, toPascalCase(TextBlock)}
    /\ invocation = Invocation("getComponent", HeroSnake, Returned("A"))

-----------------------------------------------------------------------------
(* Further claims about the rules endpoint *)

\* the rules of the mappings that are Active, in their order
RECURSIVE ActiveRulesOf(_)
ActiveRulesOf(mappings) ==
    IF mappings = <<>> THEN <<>>
    ELSE (IF Head(mappings).status = "Active"
          THEN << [source |-> Head(mappings).source,
                   destination |-> Head(mappings).destination, status |-> 301] >>
          ELSE <<>>) \o ActiveRulesOf(Tail(mappings))

\* the mappings of the upstream entry: none if there is no entry or the entry
\* has no mappings
MappingsOf(answer) ==
    IF answer.kind = "object" /\ answer.entries # <<>> /\ answer.entries[1].hasMappings
    THEN answer.entries[1].mappings
    ELSE <<>>

\* C22: after a successful fill the cached rule set is exactly the Active
\* mappings of the upstream entry, in upstream order, each with its source and
\* destination unchanged and the status code 301; an answer with no entry or
\* no mappings gives the empty set.
C22_FillHoldsActiveMappings ==
    last.outcome = "resolved"
    => /\ cachedRedirects # Null
       /\ Len(arrays[cachedRedirects]) = Len(ActiveRulesOf(MappingsOf(last.answer)))
       /\ \A i \in 1..Len(arrays[cachedRedirects]) :
             /\ arrays[cachedRedirects][i].source
                   = ActiveRulesOf(MappingsOf(last.answer))[i].source
             /\ arrays[cachedRedirects][i].destination
                   = ActiveRulesOf(MappingsOf(last.answer))[i].destination
             /\ arrays[cachedRedirects][i].status = 301

\* C22 witness: the upstream entry held an Active mapping, an Inactive one and
\* another Active one; the cache holds the first and the third.
C22_Witness ==
    /\ last.outcome = "resolved"
    /\ MappingsOf(last.answer) = <<MapOldNew, MapDraft, MapOldExt>>
    /\ Len(arrays[cachedRedirects]) = 2
    /\ arrays[cachedRedirects][1].destination = MapOldNew.destination
    /\ arrays[cachedRedirects][2].destination = MapOldExt.destination

\* C27 as stated: filledAt never decreases - no fill sets it below the value
\* it replaces - so no fetch started earlier than the one whose result is
\* cached replaces that result.
C27_TimestampMonotonic ==
    lastFill.at >= lastFill.over

\* C27: a fill sets filledAt to the time at which its handler entered GET
\* (never later than the write), and nothing else changes filledAt; a handler
\* that entered before the handler whose result is cached and finishes after it
\* replaces that result and sets filledAt back to its own entry time.
C27_TimestampIsEntryTime ==
    [][ /\ \A h \in Handlers :
              FillStep(h) => /\ cacheTimestamp' = now[h]
                             /\ cacheTimestamp' <= clock
                             /\ lastFill'.over = cacheTimestamp
                             /\ lastFill'.at = cacheTimestamp'
        /\ (\A h \in Handlers : ~FillStep(h)) => cacheTimestamp' = cacheTimestamp ]_vars

\* C27 witness: the last fill replaced a rule set filled at a later time than
\* its own: filledAt went back.
C27_Witness ==
    /\ lastFill.by # 0
    /\ cacheTimestamp = lastFill.at
    /\ lastFill.over > lastFill.at

-----------------------------------------------------------------------------
(* Further claims about the edge interceptor *)

\* the URLs the handler fetches the rules from, over all requests
RuleFetchUrls == {ApiUrl(ParseURL(requestUrl)) : requestUrl \in RequestUrls}

\* C29: handling a request issues at most one rule fetch; the request of a
\* rule fetch (/api/redirect on the request's host), handled by the
\* interceptor, is passed through with no rule fetch of its own; and a handled
\* request has ended in a redirect response or in a pass-through.
C29_NoRecursion ==
    /\ edge.fetches <= 1
    /\ RuleFetchUrls \subseteq RequestUrls
    /\ (edge.pc # "idle" /\ edge.url \in RuleFetchUrls)
       => /\ edge.pc = "done"
          /\ edge.fetches = 0
          /\ edge.out.kind = "passthrough"
          /\ edge.out.url = edge.url
    /\ edge.pc = "done" => edge.out.kind \in {"response", "passthrough"}
    /\ edge.pc = "awaitRules" => edge.fetches = 1 /\ edge.out.kind = "none"

\* C29 witness: with redirects enabled, the request for /api/redirect on the
\* host itself - the rule fetch of a request for /old - was passed through and
\* no rule fetch was issued for it.
C29_Witness ==
    /\ edge.pc = "done"
    /\ edge.env = "true"
    /\ edge.url = ApiUrl(ParseURL(EdgeOrigin \o PathOld))
    /\ edge.fetches = 0
    /\ edge.out.kind = "passthrough"

-----------------------------------------------------------------------------
(* Further claims about the tree renderer *)

\* C26: for every content block, the element ComponentRenderer returns - of
\* the resolved implementation, or of NotFound for an unregistered type - has
\* componentName equal to the canonical form of the block's type-name key and
\* the shared extended-props, whatever fields the block's props bag contains.
C26_DiagnosticName ==
    (invocation.op = "ComponentRenderer" /\ ~invocation.res.raised)
    => \A i \in 1..Len(BlocksInHand) :
          WellFormed(BlocksInHand[i])
          => /\ invocation.res.value[i].type = Resolved(BlocksInHand[i])
             /\ invocation.res.value[i].props.componentName
                   = toPascalCase(BlocksInHand[i].keys[1])
             /\ invocation.res.value[i].props.extendedProps = invocation.arg.extendedProps

-----------------------------------------------------------------------------
(* ModalWrapper: the body scroll lock of the isOpen effect
   (src/helpers/Wrappers/ModalWrapper/ModalWrapper.tsx).

   modal.overflow is document.body.style.overflow, shared by every instance.
   modal.isOpen[m] is the isOpen prop of instance m as of its last committed
   effect, modal.originalOverflow[m] the value captured by the closure of
   that effect.  modal.before is history: the overflow style the page had
   outside any modal episode. *)

Modals == 1..NumModals

\* Values the page itself gives to body.style.overflow.
PageOverflows == {"", "auto"}

AnyModalOpen == \E m \in Modals : modal.isOpen[m]

\* The effect body runs when isOpen turns true: capture, then lock.
ModalOpen(m) ==
    /\ ~modal.isOpen[m]
    /\ modal' = [modal EXCEPT
                   !.isOpen[m] = TRUE,
                   !.originalOverflow[m] = modal.overflow,
                   !.overflow = "hidden",
                   !.before = IF AnyModalOpen THEN modal.before ELSE modal.overflow]
    /\ UNCHANGED <<clock, arrays, cachedRedirects, cacheTimestamp, pc, now, observed,
                   fetchCount, lastFill, last, edge, components, registered,
                   invocation, snapshot, api, lang>>

\* The effect cleanup runs when isOpen turns false or the instance unmounts.
ModalClose(m) ==
    /\ modal.isOpen[m]
    /\ modal' = [modal EXCEPT
                   !.isOpen[m] = FALSE,
                   !.originalOverflow[m] = "",
                   !.overflow = modal.originalOverflow[m]]
    /\ UNCHANGED <<clock, arrays, cachedRedirects, cacheTimestamp, pc, now, observed,
                   fetchCount, lastFill, last, edge, components, registered,
                   invocation, snapshot, api, lang>>

\* The page restyles the body while no modal is open.
PageStyle(v) ==
    /\ ~AnyModalOpen
    /\ modal.overflow # v
    /\ modal' = [modal EXCEPT !.overflow = v, !.before = v]
    /\ UNCHANGED <<clock, arrays, cachedRedirects, cacheTimestamp, pc, now, observed,
                   fetchCount, lastFill, last, edge, components, registered,
                   invocation, snapshot, api, lang>>

NextModal ==
    \/ \E m \in Modals : ModalOpen(m)
    \/ \E m \in Modals : ModalClose(m)
    \/ \E v \in PageOverflows : PageStyle(v)

SpecModal == Init /\ [][NextModal]_vars

\* C24: body scrolling is locked whenever a ModalWrapper is open, and once
\* every modal has closed the body overflow style equals its value before the
\* first modal opened, for any order of opening and closing several instances.
C24_ScrollLock ==
    /\ AnyModalOpen => modal.overflow = "hidden"
    /\ ~AnyModalOpen => modal.overflow = modal.before

-----------------------------------------------------------------------------
(* Page requests and the LanguageService singleton
   (src/app/[locale]/[[...slug]]/page.tsx, src/lib/contentstack/language.ts,
   src/lib/contentstack/page-data.ts, src/lib/types.ts).

   lang.currentLanguage is the singleton's field, shared by every request of
   the process.  lang.pc[h] is the await at which request h is suspended,
   lang.locale[h] its route parameter, lang.used[h] the language arguments
   fetchPageData passed to getPage, getHeader and getFooter.  A request runs
   without interruption between two awaits.

   constants/locales is not among the sources; the two locale constants stand
   for any supported set and its default. *)

Pages == 1..NumPages

SUPPORTED_LOCALES == {"en", "fr"}

DEFAULT_LOCALE == "en"

\* Values of the [locale] route parameter: supported, unsupported, absent.
LocaleParams == {"en", "fr", "xx", "undefined"}

\* LanguageService.getLanguage on the singleton in state l.
getCurrentLanguage(l) == l.currentLanguage

setCurrentLanguageLocal(l, language) == l

\* LanguageService.setLanguage: the singleton after the assignment.
setCurrentLanguage(l, language) == [l EXCEPT !.currentLanguage = language]

isLanguageSupported(language) == language \in SUPPORTED_LOCALES

\* The singleton after extractAndSetLanguage(locale).
extractAndSetLanguage(l, locale) ==
    setCurrentLanguage(l, IF isLanguageSupported(locale) THEN locale ELSE DEFAULT_LOCALE)

\* The three language arguments of the parallel fetch.
fetchPageData(currentLanguage) ==
    [page |-> currentLanguage, header |-> currentLanguage, footer |-> currentLanguage]

\* SlugPage is called and suspends at await headers().
SlugPage(h, locale) ==
    /\ lang.pc[h] = "idle"
    /\ lang' = [lang EXCEPT !.pc[h] = "headers",
                            !.locale[h] = locale,
                            !.used[h] = [page |-> "", header |-> "", footer |-> ""]]
    /\ UNCHANGED <<clock, arrays, cachedRedirects, cacheTimestamp, pc, now, observed,
                   fetchCount, lastFill, last, edge, components, registered,
                   invocation, snapshot, api, modal>>

\* headers() resolves, then searchParams: the request suspends at the next await.
PageAwait(h) ==
    /\ lang.pc[h] \in {"headers", "searchParams"}
    /\ lang' = [lang EXCEPT !.pc[h] = IF lang.pc[h] = "headers" THEN "searchParams"
                                      ELSE "params"]
    /\ UNCHANGED <<clock, arrays, cachedRedirects, cacheTimestamp, pc, now, observed,
                   fetchCount, lastFill, last, edge, components, registered,
                   invocation, snapshot, api, modal>>

\* params resolves: extractAndSetLanguage, then fetchRouteData -> fetchPageData,
\* which reads the singleton and suspends at its await of the parallel fetch.
PageResolveParams(h) ==
    /\ lang.pc[h] = "params"
    /\ LET afterSet == extractAndSetLanguage(lang, lang.locale[h])
       IN lang' = [afterSet EXCEPT !.used[h] = fetchPageData(getCurrentLanguage(afterSet)),
                                   !.pc[h] = "fetching"]
    /\ UNCHANGED <<clock, arrays, cachedRedirects, cacheTimestamp, pc, now, observed,
                   fetchCount, lastFill, last, edge, components, registered,
                   invocation, snapshot, api, modal>>

\* The parallel fetch settles and the request completes.
PageSettle(h) ==
    /\ lang.pc[h] = "fetching"
    /\ lang' = [lang EXCEPT !.pc[h] = "idle"]
    /\ UNCHANGED <<clock, arrays, cachedRedirects, cacheTimestamp, pc, now, observed,
                   fetchCount, lastFill, last, edge, components, registered,
                   invocation, snapshot, api, modal>>

NextLanguage ==
    \/ \E h \in Pages, locale \in LocaleParams : SlugPage(h, locale)
    \/ \E h \in Pages : PageAwait(h)
    \/ \E h \in Pages : PageResolveParams(h)
    \/ \E h \in Pages : PageSettle(h)

SpecLanguage == Init /\ [][NextLanguage]_vars

\* The language a request's own locale parameter stands for.
OwnLanguage(h) ==
    IF lang.locale[h] \in SUPPORTED_LOCALES THEN lang.locale[h] ELSE DEFAULT_LOCALE

-----------------------------------------------------------------------------
(* The API client: one request through createApiClient (src/unnamed/part_012,
   src/lib/api/types.ts).

   api.pc is the await at which request() is suspended.  api.timer is the
   timeout timer of line 120 ("none", "armed", "fired" while the request was
   running, "late" when it fired after the request had settled), api.aborted
   the state of the signal given to fetch, api.firedAt the attempt during
   which the timer fired.  api.response is the response of the current
   attempt.  api.log is history: the outcome of each attempt so far.
   api.result is how the promise of request() settled; status 0 stands for an
   undefined status. *)

\* Statuses a server answers with.
Statuses == {200, 404, 429, 500}

\* Bodies of a response with content-type application/json: parseable,
\* unparseable, empty.
Bodies == {"json", "badjson", "empty"}

NoApiResponse == [status |-> 0, body |-> "none"]

\* response.ok
Ok(status) == status >= 200 /\ status < 300

\* new URL(url) accepts the built URL: the path is absolute or a base URL is configured.
buildUrl(pathAbsolute, hasBaseUrl) == pathAbsolute \/ hasBaseUrl

isRetryableStatus(status) ==
    status = 408 \/ status = 429 \/ (status >= 500 /\ status < 600)

isRetryableError(err) ==
    \/ err.name = "TypeError"
    \/ (err.name = "ApiError" /\ err.status # 0 /\ isRetryableStatus(err.status))

AbortError == [name |-> "AbortError", message |-> "This operation was aborted", status |-> 0]

\* fetch or a body read fails on the network.
NetworkError == [name |-> "TypeError", message |-> "fetch failed", status |-> 0]

\* response.text() on a body that was already read.
BodyUnusable == [name |-> "TypeError", message |-> "Body is unusable", status |-> 0]

InvalidUrl == [name |-> "TypeError", message |-> "Invalid URL", status |-> 0]

ApiError(message, status) == [name |-> "ApiError", message |-> message, status |-> status]

\* The outcome of the current attempt, replacing what the log holds for it.
Logged(a, kind, status) ==
    [a EXCEPT !.log = SubSeq(a.log, 1, a.attempt - 1) \o <<[kind |-> kind, status |-> status]>>]

\* The catch block of the attempt loop, entered with err in request state a.
Catch(a, err) ==
    IF err.name = "ApiError" THEN [a EXCEPT !.pc = "done", !.result = err]
    ELSE LET isAbort == err.name = "AbortError"
             wrapped == ApiError(IF isAbort THEN "Request timeout" ELSE err.message, 0)
         IN IF a.attempt < 1 + a.retries /\ (isRetryableError(err) \/ isAbort)
            THEN [a EXCEPT !.pc = "delaying"]
            ELSE [a EXCEPT !.pc = "done", !.result = wrapped]

\* request() up to its first await: URL, timer, first fetch.
Request(retries, timeoutMs, ownSignal, pathAbsolute, hasBaseUrl) ==
    /\ api.pc = "idle"
    /\ IF ~buildUrl(pathAbsolute, hasBaseUrl)
       THEN api' = [api EXCEPT !.pc = "done", !.retries = retries,
                               !.ownSignal = ownSignal, !.result = InvalidUrl]
       ELSE api' = [api EXCEPT !.pc = "fetching", !.retries = retries,
                               !.ownSignal = ownSignal,
                               !.timer = IF timeoutMs /\ ~ownSignal THEN "armed" ELSE "none",
                               !.attempt = 1, !.fetches = 1]
    /\ UNCHANGED <<clock, arrays, cachedRedirects, cacheTimestamp, pc, now, observed,
                   fetchCount, lastFill, last, edge, components, registered,
                   invocation, snapshot, modal, lang>>

\* The timeout timer fires: controller.abort().
TimerFire ==
    /\ api.timer = "armed"
    /\ api' = [api EXCEPT !.timer = IF api.pc = "done" THEN "late" ELSE "fired",
                          !.aborted = TRUE,
                          !.firedAt = api.attempt]
    /\ UNCHANGED <<clock, arrays, cachedRedirects, cacheTimestamp, pc, now, observed,
                   fetchCount, lastFill, last, edge, components, registered,
                   invocation, snapshot, modal, lang>>

\* The caller aborts the signal it supplied.
CallerAbort ==
    /\ api.ownSignal /\ ~api.aborted
    /\ api.pc \in {"fetching", "readingBody", "readingErrBody", "delaying"}
    /\ api' = [api EXCEPT !.aborted = TRUE]
    /\ UNCHANGED <<clock, arrays, cachedRedirects, cacheTimestamp, pc, now, observed,
                   fetchCount, lastFill, last, edge, components, registered,
                   invocation, snapshot, modal, lang>>

\* await fetch(...) settles: rejected by the aborted signal, rejected by the
\* network, or resolved with a response.
FetchSettle(network, status, body) ==
    /\ api.pc = "fetching"
    /\ api' = IF api.aborted THEN Catch(Logged(api, "abort", 0), AbortError)
              ELSE IF network THEN Catch(Logged(api, "network", 0), NetworkError)
              ELSE [Logged(api, "response", status) EXCEPT
                      !.response = [status |-> status, body |-> body],
                      !.pc = IF Ok(status) THEN "readingBody" ELSE "readingErrBody"]
    /\ UNCHANGED <<clock, arrays, cachedRedirects, cacheTimestamp, pc, now, observed,
                   fetchCount, lastFill, last, edge, components, registered,
                   invocation, snapshot, modal, lang>>

\* parseResponseBody of a 2xx response settles, and the request returns or
\* enters the catch block.
ReadBody(network) ==
    /\ api.pc = "readingBody"
    /\ api' = IF api.aborted THEN Catch(Logged(api, "abort", 0), AbortError)
              ELSE IF network THEN Catch(Logged(api, "network", 0), NetworkError)
              ELSE IF api.response.body = "badjson"
                   THEN Catch(api, ApiError("Invalid JSON in response", api.response.status))
              ELSE [api EXCEPT !.pc = "done",
                               !.result = [name |-> "resolved", message |-> "",
                                           status |-> api.response.status]]
    /\ UNCHANGED <<clock, arrays, cachedRedirects, cacheTimestamp, pc, now, observed,
                   fetchCount, lastFill, last, edge, components, registered,
                   invocation, snapshot, modal, lang>>

\* The error body of a non-2xx response is read.  When parseResponseBody
\* throws, the inner catch reads response.text() again, which rejects because
\* the body was already read.
ReadErrBody(network) ==
    /\ api.pc = "readingErrBody"
    /\ api' = IF api.aborted THEN Catch(Logged(api, "abort", 0), BodyUnusable)
              ELSE IF network THEN Catch(Logged(api, "network", 0), BodyUnusable)
              ELSE IF api.response.body = "badjson" THEN Catch(api, BodyUnusable)
              ELSE IF api.attempt < 1 + api.retries /\ isRetryableStatus(api.response.status)
                   THEN [api EXCEPT !.pc = "delaying"]
              ELSE Catch(api, ApiError("Request failed with status", api.response.status))
    /\ UNCHANGED <<clock, arrays, cachedRedirects, cacheTimestamp, pc, now, observed,
                   fetchCount, lastFill, last, edge, components, registered,
                   invocation, snapshot, modal, lang>>

\* delay(retryDelayMs) elapses and the next attempt calls fetch.
DelayDone ==
    /\ api.pc = "delaying"
    /\ api' = [api EXCEPT !.pc = "fetching", !.attempt = @ + 1, !.fetches = @ + 1,
                          !.delays = @ + 1, !.response = NoApiResponse]
    /\ UNCHANGED <<clock, arrays, cachedRedirects, cacheTimestamp, pc, now, observed,
                   fetchCount, lastFill, last, edge, components, registered,
                   invocation, snapshot, modal, lang>>

NextApi ==
    \/ \E retries \in 0..MaxRetries, timeoutMs, ownSignal, pathAbsolute, hasBaseUrl \in BOOLEAN :
          Request(retries, timeoutMs, ownSignal, pathAbsolute, hasBaseUrl)
    \/ TimerFire
    \/ CallerAbort
    \/ \E network \in BOOLEAN, status \in Statuses, body \in Bodies :
          FetchSettle(network, status, body)
    \/ \E network \in BOOLEAN : ReadBody(network)
    \/ \E network \in BOOLEAN : ReadErrBody(network)
    \/ DelayDone

SpecApi == Init /\ [][NextApi]_vars

\* The outcome of the attempt the request is in or ended with.
LastOutcome == api.log[Len(api.log)]

\* Outcomes after which the client is meant to try again.
RetryableOutcome(o) ==
    \/ o.kind \in {"network", "abort"}
    \/ o.kind = "response" /\ (o.status \in {408, 429} \/ (o.status >= 500 /\ o.status <= 599))

\* C23: every request that does not succeed - non-2xx response, timeout,
\* network error, parse failure, unusable URL - rejects with an ApiError, and
\* for a non-2xx response the ApiError carries that response's status.
C23_ErrorsAreApiErrors ==
    (api.pc = "done" /\ api.result.name # "resolved")
    => /\ api.result.name = "ApiError"
       /\ (api.log # <<>> /\ LastOutcome.kind = "response" /\ ~Ok(LastOutcome.status))
          => api.result.status = LastOutcome.status

\* C25: a request issues at most 1 + retries fetch attempts; a further attempt
\* is made only after a retryable outcome (408, 429, 5xx, network error,
\* timeout abort), with one delay between two attempts; a response with any
\* other non-2xx status ends the request after that attempt.
C25_RetryBound ==
    /\ api.fetches <= 1 + api.retries
    /\ api.fetches > 0 => api.delays = api.fetches - 1 \/ (api.pc = "delaying" /\ api.delays = api.fetches)
    /\ \A i \in 1..Len(api.log) :
          i < api.fetches => RetryableOutcome(api.log[i])
    /\ \A i \in 1..Len(api.log) :
          (api.log[i].kind = "response" /\ ~Ok(api.log[i].status)
             /\ ~RetryableOutcome(api.log[i]))
          => api.fetches = i /\ api.pc \in {"readingErrBody", "done"}

\* C28: the timeout timer is started once before the first attempt and shared
\* by all attempts: once it has fired, every remaining attempt aborts at once
\* and the request ends with ApiError 'Request timeout'; there is no timer
\* when the caller supplies its own signal.
C28_TimeoutCoversRequest ==
    /\ api.ownSignal => api.timer = "none"
    /\ api.timer = "fired"
       => /\ \A i \in 1..Len(api.log) : i > api.firedAt => api.log[i].kind = "abort"
          /\ api.pc = "done"
             => api.result = ApiError("Request timeout", 0)

====
